---------------------------- MODULE Spec2Model ----------------------------
(***************************************************************************)
(* Model of the VFD SWMR page buffer (H5PB2.c, kept as                     *)
(* src/unnamed/part_000) and of the reader side metadata file decoder      *)
(* (src/src/H5FDvfd_swmr.c).                                               *)
(*                                                                         *)
(* Every C function of the page buffer is an operator from a machine state *)
(* record to a machine state record; an action applies one public          *)
(* function to the current state.  The field ret of the machine state is   *)
(* the outcome of the call: "ok" (SUCCEED), "fail" (HGOTO_ERROR), "abort"  *)
(* (a failed HDassert in a build with assertions) or "ub" (a build without *)
(* assertions went on into undefined behaviour).                           *)
(***************************************************************************)
EXTENDS Integers, Sequences, FiniteSets, TLC

(***************************************************************************)
(* Bounds of the model.                                                    *)
(***************************************************************************)
\* bytes per file space page (fs_page_size)
PageSize == 4
\* pages of the file handed out by the allocator as metadata pages: 0 .. NumMdPages-1
NumMdPages == 3
\* pages of the file handed out as raw data pages
NumRdPages == 2
\* the writer stops starting new ticks after this one
MaxTick == 3
\* largest write delay, in ticks, the delay query answers
MaxDelay == 2
\* page buffer operations in one run
MaxOps == 3

NumPages == NumMdPages + NumRdPages
FileSize == NumPages * PageSize
Pages == 0 .. (NumPages - 1)
MdPages == 0 .. (NumMdPages - 1)
RdPages == NumMdPages .. (NumPages - 1)
Addrs == 0 .. (FileSize - 1)

\* H5FD_mem_t, reduced to what the page buffer tests: H5FD_MEM_DRAW or not
DRAW == "draw"
META == "meta"
\* HADDR_UNDEF
HADDR_UNDEF == 0 - 1

(***************************************************************************)
(* Byte buffers are functions on 0 .. n-1.                                 *)
(***************************************************************************)
\* the n bytes of a write buffer: every position of every buffer is distinct
MkBuf(stamp, n) == [i \in 0 .. (n - 1) |-> stamp * 100 + i]

\* calloc: n zero bytes
Zeroes(n) == [i \in 0 .. (n - 1) |-> 0]

\* memcpy(dst + doff, src + soff, len)
Memcpy(dst, doff, src, soff, len) == [i \in DOMAIN dst |-> IF (i >= doff) /\ (i < doff + len) /\ ((i - doff + soff) \in DOMAIN src) THEN src[i - doff + soff] ELSE dst[i]]

\* TRUE iff memcpy(dst + doff, src + soff, len) stays inside both buffers
MemcpyInBounds(dst, doff, src, soff, len) == (len = 0) \/ ((doff >= 0) /\ (soff >= 0) /\ ((doff + len - 1) \in DOMAIN dst) /\ ((soff + len - 1) \in DOMAIN src))

\* the file driver: read size bytes at addr
FileRead(file, addr, size) == [i \in 0 .. (size - 1) |-> IF (addr + i) \in DOMAIN file THEN file[addr + i] ELSE 0]

\* the file driver: write the first size bytes of buf at addr
FileWrite(file, addr, size, buf) == [a \in DOMAIN file |-> IF (a >= addr) /\ (a < addr + size) THEN buf[a - addr] ELSE file[a]]

\* sequence helpers for the intrusive lists
SeqRemove(q, x) == SelectSeq(q, LAMBDA y : y # x)

InSeq(q, x) == \E i \in 1 .. Len(q) : q[i] = x

\* "no entry": the NULL entry pointer, as a page number
NULLP == 0 - 1

\* a freed entry that is still linked leaves a dangling pointer in the list: written as a negative page
Dangling(page) == NULLP - 1 - page

HasDangling(q) == \E i \in 1 .. Len(q) : q[i] < 0

\* position of x in q, 0 if absent
IndexOf(q, x) == IF InSeq(q, x) THEN CHOOSE i \in 1 .. Len(q) : q[i] = x ELSE 0

(***************************************************************************)
(* The machine state threaded through the C functions:                     *)
(*   ht                index, page -> H5PB_entry_t (DOMAIN ht = resident)  *)
(*   LRU, dwl, tl      the three intrusive lists, head first, as pages     *)
(*   curr_pages ...    the H5PB_t counters and configuration               *)
(*   file              bytes of the HDF5 file                              *)
(*   tick_num          f->shared->tick_num                                 *)
(*   prev_addr         the function static of H5PB__read_meta              *)
(*   ret, rbuf         result and output buffer of the last call           *)
(*   wlog              ghost: the H5PB__flush_entry writes of the call     *)
(*   evlog             ghost: the entries handed to H5PB__evict_entry      *)
(*   ndebug            build without assertions                            *)
(*   read_err          the file driver fails the reads of this call        *)
(*   heap              what malloc hands out for a page image              *)
(***************************************************************************)

\* HDassert(cond): abort in a build with assertions, nothing otherwise
HDassert(s, cond) == IF cond \/ s.ndebug THEN s ELSE [s EXCEPT !.ret = "abort"]

\* HGOTO_ERROR
Fail(s) == [s EXCEPT !.ret = "fail"]

\* undefined behaviour reached (only a build without assertions gets here)
Undefined(s) == [s EXCEPT !.ret = "ub"]

\* run G on the machine state s, computed once, unless the call has already ended
Then(s, G(_)) == CHOOSE r \in {IF t.ret # "ok" THEN t ELSE G(t) : t \in {s}} : TRUE

\* run G on the value v, computed once
Bind(v, G(_)) == CHOOSE r \in {G(t) : t \in {v}} : TRUE

\* H5PB__SEARCH_INDEX: TRUE iff an entry is indexed under page
InIndex(s, page) == page \in DOMAIN s.ht

(***************************************************************************)
(* The macros of the package header: index, replacement policy, delayed    *)
(* write list and tick list.                                               *)
(***************************************************************************)
\* H5PB__INSERT_IN_INDEX: hash the entry in and count it
INSERT_IN_INDEX(s, e) == [s EXCEPT !.ht = [p \in (DOMAIN s.ht) \cup {e.page} |-> IF p = e.page THEN e ELSE s.ht[p]], !.curr_pages = s.curr_pages + 1, !.mpmde_count = s.mpmde_count + (IF e.is_mpmde THEN 1 ELSE 0), !.curr_md_pages = s.curr_md_pages + (IF e.is_metadata /\ ~e.is_mpmde THEN 1 ELSE 0), !.curr_rd_pages = s.curr_rd_pages + (IF e.is_metadata THEN 0 ELSE 1)]

\* H5PB__DELETE_FROM_INDEX: unhash the entry and uncount it
DELETE_FROM_INDEX(s, page) == LET e == s.ht[page] IN [s EXCEPT !.ht = [p \in (DOMAIN s.ht) \ {page} |-> s.ht[p]], !.curr_pages = s.curr_pages - 1, !.mpmde_count = s.mpmde_count - (IF e.is_mpmde THEN 1 ELSE 0), !.curr_md_pages = s.curr_md_pages - (IF e.is_metadata /\ ~e.is_mpmde THEN 1 ELSE 0), !.curr_rd_pages = s.curr_rd_pages - (IF e.is_metadata THEN 0 ELSE 1)]

\* H5PB__UPDATE_RP_FOR_INSERTION: prepend to the LRU
UPDATE_RP_FOR_INSERTION(s, page) == [s EXCEPT !.LRU = <<page>> \o s.LRU]

\* H5PB__UPDATE_RP_FOR_INSERT_APPEND: append at the LRU tail
UPDATE_RP_FOR_INSERT_APPEND(s, page) == [s EXCEPT !.LRU = Append(s.LRU, page)]

\* H5PB__UPDATE_RP_FOR_EVICTION / _REMOVE: unlink from the LRU; unlinking an entry that is not linked is undefined
UPDATE_RP_FOR_EVICTION(s, page) == IF InSeq(s.LRU, page) THEN [s EXCEPT !.LRU = SeqRemove(s.LRU, page)] ELSE Undefined(s)

UPDATE_RP_FOR_REMOVE(s, page) == UPDATE_RP_FOR_EVICTION(s, page)

\* H5PB__UPDATE_RP_FOR_ACCESS / _FLUSH: move to the LRU head
UPDATE_RP_FOR_ACCESS(s, page) == IF InSeq(s.LRU, page) THEN [s EXCEPT !.LRU = <<page>> \o SeqRemove(s.LRU, page)] ELSE Undefined(s)

UPDATE_RP_FOR_FLUSH(s, page) == UPDATE_RP_FOR_ACCESS(s, page)

\* the delayed write list is kept by decreasing delay_write_until, head first: number of entries that stay in front of a new one
DwlInsertPos(s, until) == Cardinality({i \in 1 .. Len(s.dwl) : InIndex(s, s.dwl[i]) /\ s.ht[s.dwl[i]].delay_write_until > until})

\* H5PB__INSERT_IN_DWL
INSERT_IN_DWL(s, page) == IF HasDangling(s.dwl) THEN Undefined(s) ELSE Bind(DwlInsertPos(s, s.ht[page].delay_write_until), LAMBDA k : [s EXCEPT !.dwl = SubSeq(s.dwl, 1, k) \o <<page>> \o SubSeq(s.dwl, k + 1, Len(s.dwl))])

\* H5PB__REMOVE_FROM_DWL
REMOVE_FROM_DWL(s, page) == IF InSeq(s.dwl, page) /\ ~HasDangling(s.dwl) THEN [s EXCEPT !.dwl = SeqRemove(s.dwl, page)] ELSE Undefined(s)

\* H5PB__INSERT_IN_TL: prepend to the tick list
INSERT_IN_TL(s, page) == IF HasDangling(s.tl) THEN Undefined(s) ELSE [s EXCEPT !.tl = <<page>> \o s.tl]

\* H5PB__REMOVE_FROM_TL
REMOVE_FROM_TL(s, page) == IF InSeq(s.tl, page) /\ ~HasDangling(s.tl) THEN [s EXCEPT !.tl = SeqRemove(s.tl, page)] ELSE Undefined(s)

\* the delay query of the SWMR writer: ticks is what the metadata file index asks for this page, 0 for none
H5F_vfd_swmr_writer__delay_write(s, ticks) == IF ticks = 0 THEN 0 ELSE s.tick_num + ticks

(***************************************************************************)
(* Entries.  A machine state handed to an operator is always a value the   *)
(* caller has already computed (Then and Bind compute it once).            *)
(***************************************************************************)
\* H5PB__allocate_page and the fields H5PB__create_new_page fills in; a malloc'ed image is modelled as zeroes because every caller overwrites it whole
H5PB__allocate_page(addr, size, type) == [addr |-> addr, page |-> addr \div PageSize, size |-> size, image |-> Zeroes(size), is_metadata |-> (type # DRAW), is_mpmde |-> ((type # DRAW) /\ (size > PageSize)), is_dirty |-> FALSE, loaded |-> FALSE, modified_this_tick |-> FALSE, delay_write_until |-> 0, freed |-> FALSE]

\* H5PB__mark_entry_clean
H5PB__mark_entry_clean(s, page) ==
  Then(HDassert(s, s.vfd_swmr_writer \/ ~s.ht[page].is_mpmde), LAMBDA s1 :
    [s1 EXCEPT !.ht[page].is_dirty = FALSE])

\* what H5PB__flush_entry hands to the file driver, as the ghost log keeps it; nth numbers the writes of the call
WriteEvent(e, nth) == [page |-> e.page, modified_this_tick |-> e.modified_this_tick, delay_write_until |-> e.delay_write_until, nth |-> nth]

\* a faulty flush that writes the image and leaves the entry dirty
FlushEntryLeftDirty(s, page) ==
  Then(HDassert(s, s.ht[page].is_dirty /\ (s.vfd_swmr_writer \/ ~s.ht[page].is_mpmde) /\ (s.ht[page].delay_write_until = 0) /\ (s.ht[page].addr + s.ht[page].size <= FileSize)), LAMBDA s1 :
  Then([s1 EXCEPT !.file = FileWrite(s1.file, s1.ht[page].addr, s1.ht[page].size, s1.ht[page].image), !.wlog = s1.wlog \cup {WriteEvent(s1.ht[page], Cardinality(s1.wlog))}], LAMBDA s2 :
    IF (~s2.ht[page].is_mpmde) /\ (s2.ht[page].delay_write_until = 0) THEN UPDATE_RP_FOR_FLUSH(s2, page) ELSE s2))

\* H5PB__flush_entry: write the whole image, mark clean, move to the LRU head
H5PB__flush_entry(s, page) ==
  Then(HDassert(s, s.ht[page].is_dirty /\ (s.vfd_swmr_writer \/ ~s.ht[page].is_mpmde) /\ (s.ht[page].delay_write_until = 0) /\ (s.ht[page].addr + s.ht[page].size <= FileSize)), LAMBDA s1 :
  Then([s1 EXCEPT !.file = FileWrite(s1.file, s1.ht[page].addr, s1.ht[page].size, s1.ht[page].image), !.wlog = s1.wlog \cup {WriteEvent(s1.ht[page], Cardinality(s1.wlog))}], LAMBDA s2 :
  Then(H5PB__mark_entry_clean(s2, page), LAMBDA s3 :
    IF (~s3.ht[page].is_mpmde) /\ (s3.ht[page].delay_write_until = 0) THEN UPDATE_RP_FOR_FLUSH(s3, page) ELSE s3)))

\* H5PB__deallocate_page, called with the entry already out of the index: free the entry; it must not be linked any more
H5PB__deallocate_page(s, page) ==
  Then(HDassert(s, (~InSeq(s.LRU, page)) /\ (~InSeq(s.tl, page)) /\ (~InSeq(s.dwl, page))), LAMBDA s1 :
    [s1 EXCEPT !.tl = [i \in 1 .. Len(s1.tl) |-> IF s1.tl[i] = page THEN Dangling(page) ELSE s1.tl[i]], !.dwl = [i \in 1 .. Len(s1.dwl) |-> IF s1.dwl[i] = page THEN Dangling(page) ELSE s1.dwl[i]]])

\* the entry H5PB__evict_entry is called with, as the ghost log keeps it
EvictEvent(s, page, force) == [page |-> page, force |-> force, is_dirty |-> s.ht[page].is_dirty, modified_this_tick |-> s.ht[page].modified_this_tick, delay_write_until |-> s.ht[page].delay_write_until, on_tl |-> InSeq(s.tl, page), on_dwl |-> InSeq(s.dwl, page)]

\* H5PB__evict_entry
H5PB__evict_entry(s, page, force) ==
  Then(HDassert([s EXCEPT !.evlog = s.evlog \cup {EvictEvent(s, page, force)}], (~s.ht[page].modified_this_tick) /\ (s.ht[page].delay_write_until = 0)), LAMBDA s1 :
    IF (~force) /\ s1.ht[page].is_dirty THEN Fail(s1)
    ELSE IF (~force) /\ s1.ht[page].is_metadata /\ (s1.curr_md_pages < s1.min_md_pages) THEN Fail(s1)
    ELSE IF (~force) /\ (~s1.ht[page].is_metadata) /\ (s1.curr_rd_pages < s1.min_rd_pages) THEN Fail(s1)
    ELSE Then(IF force /\ s1.ht[page].is_dirty THEN H5PB__mark_entry_clean(s1, page) ELSE s1, LAMBDA s2 :
         Then(IF ~s2.ht[page].is_mpmde THEN UPDATE_RP_FOR_EVICTION(s2, page) ELSE s2, LAMBDA s3 :
         Then(DELETE_FROM_INDEX(s3, page), LAMBDA s4 :
           H5PB__deallocate_page(s4, page)))))

\* the entry has no neighbour on list q: its next and prev (tl_next and tl_prev) are NULL
NoNeighbour(q, page) == InSeq(q, page) => (Len(q) = 1)

\* the done: block of H5PB__create_new_page after "page buffer already contains a page": entry_ptr is the entry the search found, neither inserted_in_lru nor inserted_in_index is set, and H5PB__deallocate_page frees it where it is; its assertions pass for a clean entry without neighbours, and the index and the lists go on pointing to the freed entry
FreeWhileLinked(s, page) ==
  Then(HDassert(s, (~s.ht[page].is_dirty) /\ NoNeighbour(s.LRU, page) /\ NoNeighbour(s.dwl, page) /\ NoNeighbour(s.tl, page)), LAMBDA s1 :
    [s1 EXCEPT !.ht[page].freed = TRUE])

\* H5PB__create_new_page
H5PB__create_new_page(s, addr, size, type) ==
  Then(HDassert(s, (addr = (addr \div PageSize) * PageSize) /\ (size >= PageSize) /\ ((size = PageSize) \/ (s.vfd_swmr_writer /\ (type # DRAW)))), LAMBDA s1 :
    IF InIndex(s1, addr \div PageSize) THEN Then(FreeWhileLinked(s1, addr \div PageSize), LAMBDA s2 : Fail(s2))
    ELSE Then(INSERT_IN_INDEX(s1, H5PB__allocate_page(addr, size, type)), LAMBDA s2 :
           IF ~s2.ht[addr \div PageSize].is_mpmde THEN UPDATE_RP_FOR_INSERTION(s2, addr \div PageSize) ELSE s2))

\* a faulty placement that leaves a delayed page on the LRU as well
PlaceDirtiedLeftOnLRU(s, page) ==
  IF s.ht[page].delay_write_until > 0 THEN INSERT_IN_DWL(s, page)
  ELSE IF ~s.ht[page].is_mpmde THEN UPDATE_RP_FOR_ACCESS(s, page)
  ELSE s

\* the second half of H5PB__mark_entry_dirty for an entry that was clean: onto the delayed write list if a delay was set, else an access
PlaceDirtied(s, page) ==
  IF s.ht[page].delay_write_until > 0
  THEN Then(IF ~s.ht[page].is_mpmde THEN UPDATE_RP_FOR_REMOVE(s, page) ELSE s, LAMBDA s1 : INSERT_IN_DWL(s1, page))
  ELSE IF ~s.ht[page].is_mpmde THEN UPDATE_RP_FOR_ACCESS(s, page)
  ELSE s

\* H5PB__mark_entry_dirty; ticks is the answer of the delay query should it be asked
H5PB__mark_entry_dirty(s, page, ticks) ==
  Then(HDassert(s, s.vfd_swmr_writer \/ ~s.ht[page].is_mpmde), LAMBDA s0 :
    IF ~s0.ht[page].is_dirty
    THEN Then(HDassert([s0 EXCEPT !.ht[page].is_dirty = TRUE], s0.ht[page].delay_write_until = 0), LAMBDA s1 :
         Then(IF s1.vfd_swmr_writer /\ s1.ht[page].loaded /\ s1.ht[page].is_metadata THEN [s1 EXCEPT !.ht[page].delay_write_until = H5F_vfd_swmr_writer__delay_write(s1, ticks)] ELSE s1, LAMBDA s2 :
           PlaceDirtied(s2, page)))
    ELSE IF (~s0.ht[page].is_mpmde) /\ (s0.ht[page].delay_write_until = 0) THEN UPDATE_RP_FOR_ACCESS(s0, page)
    ELSE s0)

\* the predecessor of an entry in the LRU (towards the head), NULLP at the head
LRUPrev(s, page) == IF IndexOf(s.LRU, page) <= 1 THEN NULLP ELSE s.LRU[IndexOf(s.LRU, page) - 1]

\* the same loop without the tests against min_md_pages and min_rd_pages: it takes the entries as the LRU has them
RECURSIVE MakeSpaceLoopAnyType(_, _, _, _)
MakeSpaceLoopAnyType(s, search_ptr, inserting_md, fuel) ==
  IF s.ret # "ok" THEN s
  ELSE IF (search_ptr = NULLP) \/ ~(s.curr_pages >= s.max_pages) THEN s
  ELSE IF fuel = 0 THEN [s EXCEPT !.ret = "diverge"]
  ELSE IF s.ht[search_ptr].modified_this_tick THEN Bind(LRUPrev(s, search_ptr), LAMBDA next_ptr : MakeSpaceLoopAnyType(s, next_ptr, inserting_md, fuel - 1))
  ELSE IF s.ht[search_ptr].is_dirty
       THEN Bind(IF LRUPrev(s, search_ptr) # NULLP THEN LRUPrev(s, search_ptr) ELSE search_ptr, LAMBDA next_ptr :
            Then(H5PB__flush_entry(s, search_ptr), LAMBDA s1 : MakeSpaceLoopAnyType(s1, next_ptr, inserting_md, fuel - 1)))
  ELSE Bind(LRUPrev(s, search_ptr), LAMBDA next_ptr :
       Then(H5PB__evict_entry(s, search_ptr, FALSE), LAMBDA s1 : MakeSpaceLoopAnyType(s1, next_ptr, inserting_md, fuel - 1)))

\* the while loop of H5PB__make_space from search_ptr on; fuel bounds the passes of the model
RECURSIVE MakeSpaceLoop(_, _, _, _)
MakeSpaceLoop(s, search_ptr, inserting_md, fuel) ==
  IF s.ret # "ok" THEN s
  ELSE IF (search_ptr = NULLP) \/ ~(s.curr_pages >= s.max_pages) THEN s
  ELSE IF fuel = 0 THEN [s EXCEPT !.ret = "diverge"]
  ELSE IF s.ht[search_ptr].modified_this_tick THEN Bind(LRUPrev(s, search_ptr), LAMBDA next_ptr : MakeSpaceLoop(s, next_ptr, inserting_md, fuel - 1))
  ELSE IF inserting_md /\ (~s.ht[search_ptr].is_metadata) /\ (s.curr_rd_pages <= s.min_rd_pages) THEN Bind(LRUPrev(s, search_ptr), LAMBDA next_ptr : MakeSpaceLoop(s, next_ptr, inserting_md, fuel - 1))
  ELSE IF (~inserting_md) /\ s.ht[search_ptr].is_metadata /\ (s.curr_md_pages <= s.min_md_pages) THEN Bind(LRUPrev(s, search_ptr), LAMBDA next_ptr : MakeSpaceLoop(s, next_ptr, inserting_md, fuel - 1))
  ELSE IF s.ht[search_ptr].is_dirty
       THEN Bind(IF LRUPrev(s, search_ptr) # NULLP THEN LRUPrev(s, search_ptr) ELSE search_ptr, LAMBDA next_ptr :
            Then(H5PB__flush_entry(s, search_ptr), LAMBDA s1 : MakeSpaceLoop(s1, next_ptr, inserting_md, fuel - 1)))
  ELSE Bind(LRUPrev(s, search_ptr), LAMBDA next_ptr :
       Then(H5PB__evict_entry(s, search_ptr, FALSE), LAMBDA s1 : MakeSpaceLoop(s1, next_ptr, inserting_md, fuel - 1)))

\* H5PB__make_space
H5PB__make_space(s, inserted_type) ==
  IF (inserted_type # DRAW) /\ (s.min_rd_pages = s.max_pages) THEN Fail(s)
  ELSE IF (inserted_type = DRAW) /\ (s.min_md_pages = s.max_pages) THEN Fail(s)
  ELSE MakeSpaceLoop(s, IF Len(s.LRU) = 0 THEN NULLP ELSE s.LRU[Len(s.LRU)], inserted_type # DRAW, 4 * Len(s.LRU) + 4)

\* the same load without the call of H5PB__make_space
LoadPageNoRoomMade(s, addr, type) ==
  Then(H5PB__create_new_page(s, addr, PageSize, type), LAMBDA s2 :
    [s2 EXCEPT !.ht[addr \div PageSize].image = FileRead(s2.file, addr, PageSize), !.ht[addr \div PageSize].loaded = TRUE])

\* H5PB__load_page: make space if the buffer is full, create the entry, read its page from the file; there is no cleanup at done:, so a failed read leaves the entry with the image as malloc gave it
H5PB__load_page(s, addr, type) ==
  Then(IF s.curr_pages >= s.max_pages THEN H5PB__make_space(s, type) ELSE s, LAMBDA s1 :
  Then(H5PB__create_new_page(s1, addr, PageSize, type), LAMBDA s2 :
    IF s2.read_err THEN Fail([s2 EXCEPT !.ht[addr \div PageSize].image = s2.heap])
    ELSE [s2 EXCEPT !.ht[addr \div PageSize].image = FileRead(s2.file, addr, PageSize), !.ht[addr \div PageSize].loaded = TRUE]))

(***************************************************************************)
(* Reads.  The caller's buffer starts as Untouched(size); a byte the call  *)
(* does not store stays Untouched.                                         *)
(***************************************************************************)
\* the caller's buffer before the call
Untouched(n) == [i \in 0 .. (n - 1) |-> 0 - 1]

\* HDmemcpy(buf + doff, entry image + soff, len) into the read buffer; a copy that leaves either buffer is undefined
CopyOut(s, page, doff, soff, len) == IF MemcpyInBounds(s.rbuf, doff, s.ht[page].image, soff, len) THEN [s EXCEPT !.rbuf = Memcpy(s.rbuf, doff, s.ht[page].image, soff, len)] ELSE Undefined(s)

\* HDmemcpy(entry image + doff, buf + soff, len) from the write buffer
CopyIn(s, page, doff, buf, soff, len) == IF MemcpyInBounds(s.ht[page].image, doff, buf, soff, len) THEN [s EXCEPT !.ht[page].image = Memcpy(s.ht[page].image, doff, buf, soff, len)] ELSE Undefined(s)

\* H5F__accum_read into the read buffer
AccumRead(s, addr, size) == IF s.read_err THEN Fail(s) ELSE [s EXCEPT !.rbuf = FileRead(s.file, addr, size)]

\* H5F__accum_write
AccumWrite(s, addr, size, buf) == [s EXCEPT !.file = FileWrite(s.file, addr, size, buf)]

\* if ( NULL == entry_ptr && H5PB__load_page(...) < 0 ) HGOTO_ERROR
LoadOnMiss(s, page, type) == IF InIndex(s, page) THEN s ELSE H5PB__load_page(s, page * PageSize, type)

\* update the replacement policy for an access when the entry is a page that is not delayed
AccessIfOnLRU(s, page) == IF (~s.ht[page].is_mpmde) /\ (s.ht[page].delay_write_until = 0) THEN UPDATE_RP_FOR_ACCESS(s, page) ELSE s

\* H5PB__read_meta, address not page aligned: the part of the request inside the page, from the page
ReadMetaUnaligned(s, addr, size) ==
  Then(LoadOnMiss(s, addr \div PageSize, META), LAMBDA s1 :
  Then(HDassert(s1, s1.ht[addr \div PageSize].is_metadata /\ ~s1.ht[addr \div PageSize].is_mpmde), LAMBDA s2 :
  Then(CopyOut(s2, addr \div PageSize, 0, addr % PageSize, IF (addr % PageSize) + size <= PageSize THEN size ELSE size - (((addr % PageSize) + size) - PageSize)), LAMBDA s3 :
    AccessIfOnLRU(s3, addr \div PageSize))))

\* H5PB__read_meta, a page or more at the address of a resident page: evict the page and read the file if the previous metadata read was at this address, else the page
ReadMetaOverPage(s, addr, size) ==
  IF addr = s.prev_addr
  THEN Then(HDassert(s, ~s.ht[addr \div PageSize].is_dirty), LAMBDA s1 :
       Then(H5PB__evict_entry(s1, addr \div PageSize, TRUE), LAMBDA s2 :
         AccumRead(s2, addr, size)))
  ELSE Then(CopyOut(s, addr \div PageSize, 0, 0, s.ht[addr \div PageSize].size), LAMBDA s1 :
         AccessIfOnLRU(s1, addr \div PageSize))

\* H5PB__read_meta, at the address of a resident multi-page metadata entry: the entry, clipped to its size
ReadMetaMulti(s, addr, size) ==
  Then(HDassert(s, s.vfd_swmr_writer), LAMBDA s1 :
    CopyOut(s1, addr \div PageSize, 0, 0, IF size > s1.ht[addr \div PageSize].size THEN s1.ht[addr \div PageSize].size ELSE size))

\* H5PB__read_meta, page aligned and less than a page: from the page
ReadMetaSmall(s, addr, size) ==
  Then(LoadOnMiss(s, addr \div PageSize, META), LAMBDA s1 :
  Then(HDassert(s1, s1.ht[addr \div PageSize].is_metadata /\ ((~s1.ht[addr \div PageSize].is_mpmde) \/ s1.vfd_swmr_writer)), LAMBDA s2 :
  Then(CopyOut(s2, addr \div PageSize, 0, 0, size), LAMBDA s3 :
    AccessIfOnLRU(s3, addr \div PageSize))))

\* a metadata read that takes a read of exactly a page for a small one
ReadMetaPageLoaded(s, addr, size) ==
  Then(IF (addr \div PageSize) * PageSize # addr THEN ReadMetaUnaligned(s, addr, size)
       ELSE IF size > PageSize
            THEN IF ~InIndex(s, addr \div PageSize) THEN AccumRead(s, addr, size)
                 ELSE IF ~s.ht[addr \div PageSize].is_mpmde THEN ReadMetaOverPage(s, addr, size)
                 ELSE ReadMetaMulti(s, addr, size)
       ELSE ReadMetaSmall(s, addr, size), LAMBDA r :
    [r EXCEPT !.prev_addr = addr])

\* H5PB__read_meta
H5PB__read_meta(s, addr, size) ==
  Then(IF (addr \div PageSize) * PageSize # addr THEN ReadMetaUnaligned(s, addr, size)
       ELSE IF size >= PageSize
            THEN IF ~InIndex(s, addr \div PageSize) THEN AccumRead(s, addr, size)
                 ELSE IF ~s.ht[addr \div PageSize].is_mpmde THEN ReadMetaOverPage(s, addr, size)
                 ELSE ReadMetaMulti(s, addr, size)
       ELSE ReadMetaSmall(s, addr, size), LAMBDA r :
    [r EXCEPT !.prev_addr = addr])

\* where in the caller's buffer the i-th touched page of a raw request starts (i > 0)
BufOffset(addr, i) == (i - 1) * PageSize + (PageSize - (addr % PageSize))

\* the body of the for loop of H5PB__read_raw for a resident page: overlay it if it is dirty
ReadRawOverlay(s, addr, size, i, num_touched_pages) ==
  Then(HDassert(s, (~s.ht[(addr \div PageSize) + i].is_metadata) /\ (s.ht[(addr \div PageSize) + i].size = PageSize) /\ (s.ht[(addr \div PageSize) + i].delay_write_until = 0) /\ (s.ht[(addr \div PageSize) + i].addr <= addr + size) /\ (s.ht[(addr \div PageSize) + i].addr + s.ht[(addr \div PageSize) + i].size <= addr + size)), LAMBDA s1 :
    IF ~s1.ht[(addr \div PageSize) + i].is_dirty THEN s1
    ELSE Then(IF i = 0 THEN CopyOut(s1, (addr \div PageSize) + i, 0, addr % PageSize, PageSize - (addr % PageSize))
              ELSE IF i = num_touched_pages - 1 THEN CopyOut(s1, (addr \div PageSize) + i, BufOffset(addr, i), 0, (addr + size) - ((addr + size - 1) \div PageSize) * PageSize)
              ELSE CopyOut(s1, (addr \div PageSize) + i, BufOffset(addr, i), 0, PageSize), LAMBDA s2 :
           UPDATE_RP_FOR_ACCESS(s2, (addr \div PageSize) + i)))

\* the for loop of H5PB__read_raw over the touched pages, from the i-th on
RECURSIVE ReadRawLoop(_, _, _, _, _)
ReadRawLoop(s, addr, size, i, num_touched_pages) ==
  IF i >= num_touched_pages THEN s
  ELSE Then(IF InIndex(s, (addr \div PageSize) + i) THEN ReadRawOverlay(s, addr, size, i, num_touched_pages) ELSE s, LAMBDA s1 :
         ReadRawLoop(s1, addr, size, i + 1, num_touched_pages))

\* H5PB__read_raw, less than a page: from the page, or from the two pages it lies in; length is what the code takes from the first page
ReadRawSmall(s, addr, size, length) ==
  Then(LoadOnMiss(s, addr \div PageSize, DRAW), LAMBDA s1 :
  Then(CopyOut(s1, addr \div PageSize, 0, addr % PageSize, length), LAMBDA s2 :
  Then(UPDATE_RP_FOR_ACCESS(s2, addr \div PageSize), LAMBDA s3 :
    IF (addr + size - 1) \div PageSize = addr \div PageSize THEN s3
    ELSE Then(LoadOnMiss(s3, (addr + size - 1) \div PageSize, DRAW), LAMBDA s4 :
         Then(CopyOut(s4, (addr + size - 1) \div PageSize, length, 0, size - length), LAMBDA s5 :
           UPDATE_RP_FOR_ACCESS(s5, (addr + size - 1) \div PageSize))))))

\* H5PB__read_raw
H5PB__read_raw(s, addr, size) ==
  IF size >= PageSize
  THEN Bind(AccumRead(s, addr, size), LAMBDA s1 : ReadRawLoop(s1, addr, size, 0, ((addr + size - 1) \div PageSize) - (addr \div PageSize) + 1))
  ELSE ReadRawSmall(s, addr, size, IF (addr % PageSize) + size <= PageSize THEN size ELSE size - (PageSize - (addr % PageSize)))

\* H5PB_read
H5PB_read(s, type, addr, size) ==
  Bind([s EXCEPT !.rbuf = Untouched(size)], LAMBDA s0 :
    IF (~s0.pb_open) \/ ((type = DRAW) /\ (s0.min_md_pages = s0.max_pages)) \/ ((type # DRAW) /\ (s0.min_rd_pages = s0.max_pages)) THEN AccumRead(s0, addr, size)
    ELSE IF type = DRAW THEN H5PB__read_raw(s0, addr, size)
    ELSE H5PB__read_meta(s0, addr, size))

(***************************************************************************)
(* Writes.  ticks is the answer of the delay query, should the call ask.   *)
(***************************************************************************)
\* if ( ! modified_this_tick ) { modified_this_tick = TRUE; H5PB__INSERT_IN_TL }
AddToTickList(s, page) == IF s.ht[page].modified_this_tick THEN s ELSE Bind([s EXCEPT !.ht[page].modified_this_tick = TRUE], LAMBDA s1 : INSERT_IN_TL(s1, page))

\* H5PB__write_meta, more than a page: the multi-page metadata entry at addr, created if it is not there
WriteMetaMulti(s, addr, size, buf, ticks) ==
  Then(IF InIndex(s, addr \div PageSize) THEN s ELSE Then(H5PB__create_new_page(s, addr, size, META), LAMBDA c : [c EXCEPT !.ht[addr \div PageSize].loaded = TRUE]), LAMBDA s1 :
  Then(HDassert(s1, s1.ht[addr \div PageSize].is_metadata /\ s1.ht[addr \div PageSize].is_mpmde /\ (size = s1.ht[addr \div PageSize].size)), LAMBDA s2 :
  Then(CopyIn(s2, addr \div PageSize, 0, buf, 0, size), LAMBDA s3 :
  Then(H5PB__mark_entry_dirty(s3, addr \div PageSize, ticks), LAMBDA s4 :
    AddToTickList(s4, addr \div PageSize)))))

\* H5PB__write_meta, at most a page: into the page, loaded if it is not there
WriteMetaSmall(s, addr, size, buf, ticks) ==
  Then(HDassert(s, (addr % PageSize) + size <= PageSize), LAMBDA s0 :
  Then(LoadOnMiss(s0, addr \div PageSize, META), LAMBDA s1 :
  Then(HDassert(s1, s1.ht[addr \div PageSize].is_metadata /\ (~s1.ht[addr \div PageSize].is_mpmde) /\ (s1.ht[addr \div PageSize].size = PageSize)), LAMBDA s2 :
  Then(CopyIn(s2, addr \div PageSize, addr % PageSize, buf, 0, size), LAMBDA s3 :
  Then(H5PB__mark_entry_dirty(s3, addr \div PageSize, ticks), LAMBDA s4 :
    IF s4.vfd_swmr_writer THEN AddToTickList(s4, addr \div PageSize) ELSE s4)))))

\* H5PB__write_meta
H5PB__write_meta(s, addr, size, buf, ticks) ==
  Then(HDassert(s, (size <= PageSize) \/ (addr = (addr \div PageSize) * PageSize)), LAMBDA s0 :
    IF size > PageSize THEN WriteMetaMulti(s0, addr, size, buf, ticks) ELSE WriteMetaSmall(s0, addr, size, buf, ticks))

\* a body that marks a covered page clean and leaves it in the index
WriteRawCoveredKept(s, addr, size, buf, i, num_touched_pages) ==
  Then(HDassert(s, (~s.ht[(addr \div PageSize) + i].is_metadata) /\ (s.ht[(addr \div PageSize) + i].size = PageSize) /\ (s.ht[(addr \div PageSize) + i].delay_write_until = 0) /\ (s.ht[(addr \div PageSize) + i].addr <= addr + size)), LAMBDA s1 :
    IF (addr <= s1.ht[(addr \div PageSize) + i].addr) /\ (s1.ht[(addr \div PageSize) + i].addr + s1.ht[(addr \div PageSize) + i].size <= addr + size)
    THEN Then(IF s1.ht[(addr \div PageSize) + i].is_dirty THEN H5PB__mark_entry_clean(s1, (addr \div PageSize) + i) ELSE s1, LAMBDA s2 : s2)
    ELSE IF i = 0
    THEN Then(HDassert(s1, (s1.ht[(addr \div PageSize) + i].addr < addr) /\ (s1.ht[(addr \div PageSize) + i].addr + s1.ht[(addr \div PageSize) + i].size <= addr + size)), LAMBDA s2 :
         Then(CopyIn(s2, (addr \div PageSize) + i, addr % PageSize, buf, 0, PageSize - (addr % PageSize)), LAMBDA s3 :
           H5PB__mark_entry_dirty(s3, (addr \div PageSize) + i, 0)))
    ELSE IF i = num_touched_pages - 1
    THEN Then(CopyIn(s1, (addr \div PageSize) + i, 0, buf, BufOffset(addr, i), (addr + size) - ((addr + size - 1) \div PageSize) * PageSize), LAMBDA s2 :
           H5PB__mark_entry_dirty(s2, (addr \div PageSize) + i, 0))
    ELSE HDassert(s1, FALSE))

\* the body of the for loop of H5PB__write_raw for a resident page: evict it if the write covers it, else patch its head or its tail
WriteRawResident(s, addr, size, buf, i, num_touched_pages) ==
  Then(HDassert(s, (~s.ht[(addr \div PageSize) + i].is_metadata) /\ (s.ht[(addr \div PageSize) + i].size = PageSize) /\ (s.ht[(addr \div PageSize) + i].delay_write_until = 0) /\ (s.ht[(addr \div PageSize) + i].addr <= addr + size)), LAMBDA s1 :
    IF (addr <= s1.ht[(addr \div PageSize) + i].addr) /\ (s1.ht[(addr \div PageSize) + i].addr + s1.ht[(addr \div PageSize) + i].size <= addr + size)
    THEN Then(IF s1.ht[(addr \div PageSize) + i].is_dirty THEN H5PB__mark_entry_clean(s1, (addr \div PageSize) + i) ELSE s1, LAMBDA s2 :
           H5PB__evict_entry(s2, (addr \div PageSize) + i, TRUE))
    ELSE IF i = 0
    THEN Then(HDassert(s1, (s1.ht[(addr \div PageSize) + i].addr < addr) /\ (s1.ht[(addr \div PageSize) + i].addr + s1.ht[(addr \div PageSize) + i].size <= addr + size)), LAMBDA s2 :
         Then(CopyIn(s2, (addr \div PageSize) + i, addr % PageSize, buf, 0, PageSize - (addr % PageSize)), LAMBDA s3 :
           H5PB__mark_entry_dirty(s3, (addr \div PageSize) + i, 0)))
    ELSE IF i = num_touched_pages - 1
    THEN Then(CopyIn(s1, (addr \div PageSize) + i, 0, buf, BufOffset(addr, i), (addr + size) - ((addr + size - 1) \div PageSize) * PageSize), LAMBDA s2 :
           H5PB__mark_entry_dirty(s2, (addr \div PageSize) + i, 0))
    ELSE HDassert(s1, FALSE))

\* the for loop of H5PB__write_raw over the touched pages, from the i-th on
RECURSIVE WriteRawLoop(_, _, _, _, _, _)
WriteRawLoop(s, addr, size, buf, i, num_touched_pages) ==
  IF i >= num_touched_pages THEN s
  ELSE Then(IF InIndex(s, (addr \div PageSize) + i) THEN WriteRawResident(s, addr, size, buf, i, num_touched_pages) ELSE s, LAMBDA s1 :
         WriteRawLoop(s1, addr, size, buf, i + 1, num_touched_pages))

\* H5PB__write_raw, less than a page: into the page, or into the two pages it lies in; length is what goes into the first page
WriteRawSmall(s, addr, size, buf, length) ==
  Then(LoadOnMiss(s, addr \div PageSize, DRAW), LAMBDA s1 :
  Then(CopyIn(s1, addr \div PageSize, addr % PageSize, buf, 0, length), LAMBDA s2 :
  Then(H5PB__mark_entry_dirty(s2, addr \div PageSize, 0), LAMBDA s3 :
    IF (addr + size - 1) \div PageSize = addr \div PageSize THEN s3
    ELSE Then(LoadOnMiss(s3, (addr + size - 1) \div PageSize, DRAW), LAMBDA s4 :
         Then(CopyIn(s4, (addr + size - 1) \div PageSize, 0, buf, length, size - length), LAMBDA s5 :
           H5PB__mark_entry_dirty(s5, (addr + size - 1) \div PageSize, 0))))))

\* H5PB__write_raw
H5PB__write_raw(s, addr, size, buf) ==
  IF size >= PageSize
  THEN Bind(AccumWrite(s, addr, size, buf), LAMBDA s1 : WriteRawLoop(s1, addr, size, buf, 0, ((addr + size - 1) \div PageSize) - (addr \div PageSize) + 1))
  ELSE WriteRawSmall(s, addr, size, buf, IF (addr % PageSize) + size <= PageSize THEN size ELSE PageSize - (addr % PageSize))

\* H5PB_write
H5PB_write(s, type, addr, size, buf, ticks) ==
  IF (~s.pb_open) \/ ((type = DRAW) /\ (s.min_md_pages = s.max_pages)) \/ ((type # DRAW) /\ (s.min_rd_pages = s.max_pages)) \/ ((type # DRAW) /\ (size >= PageSize) /\ ~s.vfd_swmr_writer) THEN AccumWrite(s, addr, size, buf)
  ELSE IF type = DRAW THEN H5PB__write_raw(s, addr, size, buf)
  ELSE H5PB__write_meta(s, addr, size, buf, ticks)

(***************************************************************************)
(* Whole-buffer operations.                                                *)
(***************************************************************************)
\* a faulty walk that leaves the entries of the tick list alone
RECURSIVE FlushLoopSkippingTickList(_, _)
FlushLoopSkippingTickList(s, page) ==
  IF page >= NumPages THEN s
  ELSE Then(IF InIndex(s, page) /\ s.ht[page].is_dirty /\ (~s.ht[page].modified_this_tick) THEN H5PB__flush_entry(s, page) ELSE s, LAMBDA s1 :
         FlushLoopSkippingTickList(s1, page + 1))

\* the walk of H5PB_flush over the hash table, by increasing page from page on: flush every dirty entry
RECURSIVE FlushLoop(_, _)
FlushLoop(s, page) ==
  IF page >= NumPages THEN s
  ELSE Then(IF InIndex(s, page) /\ s.ht[page].is_dirty THEN H5PB__flush_entry(s, page) ELSE s, LAMBDA s1 :
         FlushLoop(s1, page + 1))

\* a faulty flush that goes on to evict what it has cleaned
RECURSIVE EvictCleanLoop(_, _)
EvictCleanLoop(s, page) ==
  IF page >= NumPages THEN s
  ELSE Then(IF InIndex(s, page) /\ (~s.ht[page].is_dirty) /\ (~s.ht[page].modified_this_tick) /\ (s.ht[page].delay_write_until = 0) THEN H5PB__evict_entry(s, page, TRUE) ELSE s, LAMBDA s1 :
         EvictCleanLoop(s1, page + 1))

FlushThenEvict(s) == IF s.pb_open THEN Then(FlushLoop(s, 0), LAMBDA s1 : EvictCleanLoop(s1, 0)) ELSE s

\* H5PB_flush
H5PB_flush(s) == IF s.pb_open THEN FlushLoop(s, 0) ELSE s

\* the body of the walk of H5PB_dest: flush the entry if it is dirty, then evict it by force
DestEntry(s, page) ==
  Then(IF s.ht[page].is_dirty THEN H5PB__flush_entry(s, page) ELSE s, LAMBDA s1 :
    H5PB__evict_entry(s1, page, TRUE))

\* the walk of H5PB_dest over the hash table
RECURSIVE DestLoop(_, _)
DestLoop(s, page) ==
  IF page >= NumPages THEN s
  ELSE Then(IF InIndex(s, page) THEN DestEntry(s, page) ELSE s, LAMBDA s1 :
         DestLoop(s1, page + 1))

\* H5PB_dest: empty the buffer, check that nothing is left, free it
H5PB_dest(s) ==
  IF ~s.pb_open THEN s
  ELSE Then(DestLoop(s, 0), LAMBDA s1 :
       Then(HDassert(s1, (s1.curr_pages = 0) /\ (s1.curr_md_pages = 0) /\ (s1.curr_rd_pages = 0) /\ (DOMAIN s1.ht = {}) /\ (Len(s1.LRU) = 0) /\ (Len(s1.dwl) = 0) /\ (Len(s1.tl) = 0)), LAMBDA s2 :
         [s2 EXCEPT !.pb_open = FALSE]))

\* H5PB_add_new_page
H5PB_add_new_page(s, type, page_addr) ==
  IF (IF type = DRAW THEN s.min_md_pages # s.max_pages ELSE s.min_rd_pages # s.max_pages) THEN H5PB__create_new_page(s, page_addr, PageSize, type) ELSE s

\* H5PB_remove_entry, the entry found: off the tick list, off the delayed write list and back on the LRU, clean, evicted
RemoveFound(s, page) ==
  Then(IF s.ht[page].modified_this_tick THEN Then(REMOVE_FROM_TL(s, page), LAMBDA r : [r EXCEPT !.ht[page].modified_this_tick = FALSE]) ELSE s, LAMBDA s1 :
  Then(IF s1.ht[page].delay_write_until > 0
       THEN Then(REMOVE_FROM_DWL([s1 EXCEPT !.ht[page].delay_write_until = 0], page), LAMBDA r : IF ~r.ht[page].is_mpmde THEN UPDATE_RP_FOR_INSERTION(r, page) ELSE r)
       ELSE s1, LAMBDA s2 :
  Then(IF s2.ht[page].is_dirty THEN H5PB__mark_entry_clean(s2, page) ELSE s2, LAMBDA s3 :
    H5PB__evict_entry(s3, page, TRUE))))

\* H5PB_remove_entry
H5PB_remove_entry(s, addr) ==
  Then(HDassert(s, addr = (addr \div PageSize) * PageSize), LAMBDA s0 :
    IF InIndex(s0, addr \div PageSize) THEN RemoveFound(s0, addr \div PageSize) ELSE s0)

\* the body of the while loop of H5PB_vfd_swmr__release_delayed_writes for the entry at the tail
ReleaseDelayed(s, page) ==
  Then(HDassert(s, s.ht[page].is_dirty), LAMBDA s1 :
  Then(REMOVE_FROM_DWL([s1 EXCEPT !.ht[page].delay_write_until = 0], page), LAMBDA s2 :
    IF s2.ht[page].is_mpmde
    THEN Then(H5PB__flush_entry(s2, page), LAMBDA s3 : H5PB__evict_entry(s3, page, TRUE))
    ELSE UPDATE_RP_FOR_INSERT_APPEND(s2, page)))

\* the while loop of H5PB_vfd_swmr__release_delayed_writes: release from the tail what is due
RECURSIVE ReleaseDelayedLoop(_)
ReleaseDelayedLoop(s) ==
  IF Len(s.dwl) = 0 THEN s
  ELSE IF s.dwl[Len(s.dwl)] < 0 THEN Undefined(s)
  ELSE IF ~(s.ht[s.dwl[Len(s.dwl)]].delay_write_until < s.tick_num) THEN s
  ELSE Then(ReleaseDelayed(s, s.dwl[Len(s.dwl)]), LAMBDA s1 : ReleaseDelayedLoop(s1))

\* H5PB_vfd_swmr__release_delayed_writes
H5PB_vfd_swmr__release_delayed_writes(s) == Then(HDassert(s, s.vfd_swmr_writer), LAMBDA s1 : ReleaseDelayedLoop(s1))

\* the same body that leaves every entry where it is
ReleaseTickedInPlace(s, page) ==
  Then(REMOVE_FROM_TL(s, page), LAMBDA s1 : [s1 EXCEPT !.ht[page].modified_this_tick = FALSE])

\* the body of the while loop of H5PB_vfd_swmr__release_tick_list for the entry at the head
ReleaseTicked(s, page) ==
  Then(REMOVE_FROM_TL(s, page), LAMBDA s1 :
  Then([s1 EXCEPT !.ht[page].modified_this_tick = FALSE], LAMBDA s2 :
    IF ~s2.ht[page].is_mpmde THEN s2
    ELSE Then(HDassert(s2, s2.ht[page].is_dirty), LAMBDA s3 :
           IF s3.ht[page].delay_write_until # 0 THEN s3
           ELSE Then(H5PB__flush_entry(s3, page), LAMBDA s4 : H5PB__evict_entry(s4, page, TRUE)))))

\* the while loop of H5PB_vfd_swmr__release_tick_list: take every entry off the tick list
RECURSIVE ReleaseTickLoop(_)
ReleaseTickLoop(s) ==
  IF Len(s.tl) = 0 THEN s
  ELSE IF s.tl[1] < 0 THEN Undefined(s)
  ELSE Then(ReleaseTicked(s, s.tl[1]), LAMBDA s1 : ReleaseTickLoop(s1))

\* H5PB_vfd_swmr__release_tick_list
H5PB_vfd_swmr__release_tick_list(s) == Then(HDassert(s, s.vfd_swmr_writer), LAMBDA s1 : ReleaseTickLoop(s1))

\* a tick check that takes any later tick of the file
SetTickForward(s) == IF s.tick_num <= s.cur_tick THEN Fail(s) ELSE [s EXCEPT !.cur_tick = s.tick_num]

\* H5PB_vfd_swmr__set_tick
H5PB_vfd_swmr__set_tick(s) == IF s.tick_num # s.cur_tick + 1 THEN Fail(s) ELSE [s EXCEPT !.cur_tick = s.tick_num]

\* H5PB_create for a buffer of max_pages pages: the fields of a new H5PB_t
H5PB_create(max_pages, min_meta_perc, min_raw_perc, vfd_swmr_writer) == [ht |-> [p \in {} |-> 0], LRU |-> <<>>, dwl |-> <<>>, tl |-> <<>>, curr_pages |-> 0, curr_md_pages |-> 0, curr_rd_pages |-> 0, mpmde_count |-> 0, max_pages |-> max_pages, min_md_pages |-> (max_pages * PageSize * min_meta_perc) \div (PageSize * 100), min_rd_pages |-> (max_pages * PageSize * min_raw_perc) \div (PageSize * 100), vfd_swmr_writer |-> vfd_swmr_writer, cur_tick |-> 0, pb_open |-> TRUE]

\* f->shared->pb_ptr == NULL: the file has no page buffer
NoPageBuffer == [H5PB_create(0, 0, 0, FALSE) EXCEPT !.pb_open = FALSE]

\* the argument check of H5PB_create: the size the page buffer gets, rounded down to whole pages if it is more than a page, or -1 for HGOTO_ERROR; paged is fs_strategy == H5F_FSPACE_STRATEGY_PAGE
CheckedSize(size, paged) ==
  IF ~paged THEN 0 - 1
  ELSE IF size > PageSize THEN (size \div PageSize) * PageSize
  ELSE IF 0 # size % PageSize THEN 0 - 1
  ELSE size

\* H5PB_create(f, size, page_buf_min_meta_perc, page_buf_min_raw_perc) on a file that has no page buffer
CreateFromSize(s, size, paged, min_meta_perc, min_raw_perc, vfd_swmr_writer) ==
  Then(HDassert(s, (min_meta_perc <= 100) /\ (min_raw_perc <= 100) /\ (min_meta_perc + min_raw_perc <= 100)), LAMBDA s0 :
    IF CheckedSize(size, paged) < 0 THEN Fail(s0)
    ELSE Then(HDassert(s0, ((CheckedSize(size, paged) * min_meta_perc) \div (PageSize * 100)) + ((CheckedSize(size, paged) * min_raw_perc) \div (PageSize * 100)) <= CheckedSize(size, paged) \div PageSize), LAMBDA s1 :
           H5PB_create(CheckedSize(size, paged) \div PageSize, min_meta_perc, min_raw_perc, vfd_swmr_writer) @@ s1))

(***************************************************************************)
(* The metadata file and its reader (H5FDvfd_swmr.c).  The file is a       *)
(* sequence of fields; an offset or a length counts fields.                *)
(***************************************************************************)
\* most entries of a published index
MaxEntries == 1
\* the writer of the metadata file stops publishing after this tick
MaxPublishedTick == 4
\* attempts of H5FD__vfd_swmr_load_hdr_and_idx in the model
H5FD_VFD_SWMR_MD_LOAD_RETRY_MAX == 2
\* reads of the header in one H5FD__vfd_swmr_header_deserialize in the model
H5FD_VFD_SWMR_MD_HEADER_RETRY_MAX == 2
\* reads of the index in one H5FD__vfd_swmr_index_deserialize in the model
H5FD_VFD_SWMR_MD_INDEX_RETRY_MAX == 2
\* the checksum of the model is a residue below this
ChecksumModulus == 251
\* entries of the longest index a reader serves reads from
MaxIndexLen == 3

\* max_pages of the largest page buffer of the runs under replacement pressure
MaxSpacePages == 4

\* the longest delay the delay query answers in the runs of delayed writes
MaxWriteDelay == 3

\* the ticks of the runs of delayed writes
MaxCycles == 5

\* "VHDR" and "VIDX", read as 32 bit little endian numbers
H5FD_MD_HEADER_MAGIC == 1380206678
H5FD_MD_INDEX_MAGIC == 1480870230
\* the header starts the file
H5FD_MD_HEADER_OFF == 0
\* magic, fs_page_size, tick_num, index_offset, index_length, checksum
H5FD_MD_HEADER_SIZE == 6
\* magic, tick_num, num_entries, four fields per entry, checksum
H5FD_MD_INDEX_SIZE(N) == 4 + 4 * N
\* fields of the metadata file: the header and the longest index
MdFileLen == H5FD_MD_HEADER_SIZE + H5FD_MD_INDEX_SIZE(MaxEntries)

\* H5_checksum_metadata over the first n fields of image
RECURSIVE H5_checksum_metadata(_, _)
H5_checksum_metadata(image, n) == IF n = 0 THEN 0 ELSE (H5_checksum_metadata(image, n - 1) * 31 + (image[n] % ChecksumModulus) + n) % ChecksumModulus

\* H5F_get_checksums: the stored checksum is the last field, the computed one covers the fields before it
H5F_get_checksums(image) == [stored_chksum |-> image[Len(image)], computed_chksum |-> H5_checksum_metadata(image, Len(image) - 1)]

\* close a record image with its checksum
Sealed(body) == Append(body, H5_checksum_metadata(body, Len(body)))

\* the header as the writer lays it out
HeaderImage(h) == Sealed(<<H5FD_MD_HEADER_MAGIC, h.fs_page_size, h.tick_num, h.index_offset, h.index_length>>)

\* the fields of the entries of an index, one after the other
EntryFields(entries) == [k \in 1 .. 4 * Len(entries) |-> IF (k - 1) % 4 = 0 THEN entries[((k - 1) \div 4) + 1].hdf5_page_offset ELSE IF (k - 1) % 4 = 1 THEN entries[((k - 1) \div 4) + 1].md_file_page_offset ELSE IF (k - 1) % 4 = 2 THEN entries[((k - 1) \div 4) + 1].length ELSE entries[((k - 1) \div 4) + 1].chksum]

\* the index as the writer lays it out
IndexImage(x) == Sealed(<<H5FD_MD_INDEX_MAGIC, x.tick_num, x.num_entries>> \o EntryFields(x.entries))

\* what the writer publishes at a tick: every third tick the index is empty
NumEntriesAt(t) == IF t % 3 = 0 THEN 0 ELSE MaxEntries

PublishedIndex(t) == [tick_num |-> t, num_entries |-> NumEntriesAt(t), entries |-> [i \in 1 .. NumEntriesAt(t) |-> [hdf5_page_offset |-> i - 1, md_file_page_offset |-> 4 + ((t + i) % 2), length |-> PageSize, chksum |-> (7 * t + i) % ChecksumModulus]]]

PublishedHeader(t) == [fs_page_size |-> PageSize, tick_num |-> t, index_offset |-> H5FD_MD_HEADER_SIZE, index_length |-> H5FD_MD_INDEX_SIZE(NumEntriesAt(t))]

\* the metadata file with the header and the index of tick t whole
PublishedFile(t) == [k \in 1 .. MdFileLen |-> IF k <= H5FD_MD_HEADER_SIZE THEN HeaderImage(PublishedHeader(t))[k] ELSE IF k - H5FD_MD_HEADER_SIZE <= Len(IndexImage(PublishedIndex(t))) THEN IndexImage(PublishedIndex(t))[k - H5FD_MD_HEADER_SIZE] ELSE 0]

\* the writes of one record, field by field: <<position in the file, value>>
FieldWrites(offset, image) == [k \in 1 .. Len(image) |-> <<offset + k, image[k]>>]

\* the writes that publish tick t, the header before the index or after it
PublishWrites(t, header_first) == IF header_first THEN FieldWrites(H5FD_MD_HEADER_OFF, HeaderImage(PublishedHeader(t))) \o FieldWrites(H5FD_MD_HEADER_SIZE, IndexImage(PublishedIndex(t))) ELSE FieldWrites(H5FD_MD_HEADER_SIZE, IndexImage(PublishedIndex(t))) \o FieldWrites(H5FD_MD_HEADER_OFF, HeaderImage(PublishedHeader(t)))

\* HDlseek and HDread: len fields from offset, fewer at the end of the file
MdRead(mdf, offset, len) == [k \in 1 .. (IF offset + len <= Len(mdf) THEN len ELSE IF offset < Len(mdf) THEN Len(mdf) - offset ELSE 0) |-> mdf[offset + k]]

\* memset(&md_header, 0, ...) and memset(&md_index, 0, ...)
ZeroHeader == [fs_page_size |-> 0, tick_num |-> 0, index_offset |-> 0, index_length |-> 0]
ZeroIndex == [tick_num |-> 0, num_entries |-> 0, entries |-> <<>>]

\* the magic and checksum test of H5FD__vfd_swmr_header_deserialize on a header read whole
HeaderImageValid(image) == (Len(image) = H5FD_MD_HEADER_SIZE) /\ (image[1] = H5FD_MD_HEADER_MAGIC) /\ (H5F_get_checksums(image).stored_chksum = H5F_get_checksums(image).computed_chksum)

\* the decoding of H5FD__vfd_swmr_header_deserialize
HeaderDecode(image) == [fs_page_size |-> image[2], tick_num |-> image[3], index_offset |-> image[4], index_length |-> image[5]]

\* the magic and checksum test of H5FD__vfd_swmr_index_deserialize on an index read whole
IndexImageValid(image) == (Len(image) >= 2) /\ (image[1] = H5FD_MD_INDEX_MAGIC) /\ (H5F_get_checksums(image).stored_chksum = H5F_get_checksums(image).computed_chksum)

\* the decoding of H5FD__vfd_swmr_index_deserialize stays inside the image it reads
IndexDecodeInBounds(image) == (Len(image) >= 4) /\ (image[3] >= 0) /\ (H5FD_MD_INDEX_SIZE(image[3]) <= Len(image))

\* the decoding of H5FD__vfd_swmr_index_deserialize
IndexDecode(image) == [tick_num |-> image[2], num_entries |-> image[3], entries |-> [i \in 1 .. image[3] |-> [hdf5_page_offset |-> image[4 * i], md_file_page_offset |-> image[4 * i + 1], length |-> image[4 * i + 2], chksum |-> image[4 * i + 3]]]]

(***************************************************************************)
(* The reader.  Its state is one record:                                   *)
(*   pc                  "closed", "hdr" (about to read the header),       *)
(*                       "idx" (about to read the index), "idle" (between  *)
(*                       calls), "dead" (open failed, or the process went  *)
(*                       into undefined behaviour)                         *)
(*   open                the parameter of H5FD__vfd_swmr_load_hdr_and_idx  *)
(*   load_retries, header_retries, index_retries   the loop counters       *)
(*   md_header, md_index the locals of H5FD__vfd_swmr_load_hdr_and_idx     *)
(*   file_md_header, file_md_index   file->md_header and file->md_index    *)
(*   md_pages_reserved   file->md_pages_reserved                           *)
(*   ret, err            result of the last call and the error it pushed   *)
(*   tick, num_entries   what H5FD_vfd_swmr_get_tick_and_idx handed back   *)
(*   hdr_image, file_hdr_image, file_idx_image, skews   ghosts: the images *)
(*                       the local header and the cached records were      *)
(*                       decoded from; attempts of the call that saw a     *)
(*                       header one tick ahead of the index; whether the   *)
(*                       call replaced the cached records                  *)
(***************************************************************************)
\* the H5FD_vfd_swmr_t that H5FD_vfd_swmr_open callocs
NewReader(md_pages_reserved) == [pc |-> "closed", open |-> TRUE, load_retries |-> 0, header_retries |-> 0, index_retries |-> 0, md_header |-> ZeroHeader, md_index |-> ZeroIndex, file_md_header |-> ZeroHeader, file_md_index |-> ZeroIndex, md_pages_reserved |-> md_pages_reserved, ret |-> "none", err |-> "none", tick |-> 0, num_entries |-> 0, hdr_image |-> <<>>, file_hdr_image |-> <<>>, file_idx_image |-> <<>>, skews |-> 0, installed |-> FALSE, pb_configured |-> FALSE, addr |-> 0, size |-> 0, init_addr |-> 0, init_size |-> 0, page_offset |-> 0, my_idx |-> 0, cmp |-> 0 - 1, entry_retries |-> 0, read_ptr |-> 0, buf |-> <<>>, fpos |-> 0, served |-> "none", from |-> 0, attempt_bytes |-> 0, called |-> FALSE, was_configured |-> FALSE]

\* entry of H5FD__vfd_swmr_load_hdr_and_idx, up to the first read of the header
StartLoad(r, open) == [r EXCEPT !.pc = "hdr", !.open = open, !.load_retries = H5FD_VFD_SWMR_MD_LOAD_RETRY_MAX, !.header_retries = H5FD_VFD_SWMR_MD_HEADER_RETRY_MAX, !.index_retries = 0, !.md_header = ZeroHeader, !.md_index = ZeroIndex, !.hdr_image = <<>>, !.ret = "none", !.err = "none", !.skews = 0, !.installed = FALSE]

\* H5FD_vfd_swmr_get_tick_and_idx after the reload: hand back the cached tick and entry count, unless the reload failed
H5FD_vfd_swmr_get_tick_and_idx(r) == IF (~r.open) /\ (r.ret = "ok") THEN [r EXCEPT !.tick = r.file_md_header.tick_num, !.num_entries = r.file_md_index.num_entries] ELSE r

\* H5FD__vfd_swmr_load_hdr_and_idx returns: a failed open frees the file struct
LoadReturn(r, ret_value, err) == H5FD_vfd_swmr_get_tick_and_idx([r EXCEPT !.pc = IF (ret_value = "ub") \/ (r.open /\ (ret_value # "ok")) THEN "dead" ELSE "idle", !.ret = ret_value, !.err = err, !.header_retries = 0, !.index_retries = 0, !.md_header = ZeroHeader, !.md_index = ZeroIndex, !.hdr_image = <<>>])

\* the foot of the do-while of H5FD__vfd_swmr_load_hdr_and_idx: sleep, count the attempt, go round or give up
NextAttempt(r) == IF r.load_retries - 1 = 0 THEN LoadReturn([r EXCEPT !.load_retries = 0], "fail", "error in loading/decoding the metadata file header and index") ELSE [r EXCEPT !.load_retries = r.load_retries - 1, !.pc = "hdr", !.header_retries = H5FD_VFD_SWMR_MD_HEADER_RETRY_MAX, !.index_retries = 0, !.md_header = ZeroHeader, !.md_index = ZeroIndex, !.hdr_image = <<>>]

\* a faulty reload that does not compare a smaller tick with the cached one
HeaderLoadedNoDecreaseCheck(r, h, image) ==
  IF H5FD_MD_HEADER_SIZE + h.index_length > r.md_pages_reserved * h.fs_page_size THEN LoadReturn(r, "fail", "header + index does not fit within md_pages_reserved")
  ELSE IF (~r.open) /\ (h.tick_num = r.file_md_header.tick_num) THEN LoadReturn(r, "ok", "none")
  ELSE [r EXCEPT !.pc = "idx", !.md_header = h, !.hdr_image = image, !.header_retries = 0, !.index_retries = H5FD_VFD_SWMR_MD_INDEX_RETRY_MAX]

\* a faulty reload that loads the index again when the tick is the cached one
HeaderLoadedNoSameTickReturn(r, h, image) ==
  IF H5FD_MD_HEADER_SIZE + h.index_length > r.md_pages_reserved * h.fs_page_size THEN LoadReturn(r, "fail", "header + index does not fit within md_pages_reserved")
  ELSE IF (~r.open) /\ (h.tick_num < r.file_md_header.tick_num) THEN LoadReturn(r, "fail", "tick number read is less than local copy")
  ELSE [r EXCEPT !.pc = "idx", !.md_header = h, !.hdr_image = image, !.header_retries = 0, !.index_retries = H5FD_VFD_SWMR_MD_INDEX_RETRY_MAX]

\* a faulty reader that takes a header of any length
HeaderLoadedAnyLength(r, h, image) ==
  IF (~r.open) /\ (h.tick_num = r.file_md_header.tick_num) THEN LoadReturn(r, "ok", "none")
  ELSE IF (~r.open) /\ (h.tick_num < r.file_md_header.tick_num) THEN LoadReturn(r, "fail", "tick number read is less than local copy")
  ELSE [r EXCEPT !.pc = "idx", !.md_header = h, !.hdr_image = image, !.header_retries = 0, !.index_retries = H5FD_VFD_SWMR_MD_INDEX_RETRY_MAX]

\* H5FD__vfd_swmr_load_hdr_and_idx with the header h decoded: the fit in the reserved pages, then the tick against the cached one
HeaderLoaded(r, h, image) ==
  IF H5FD_MD_HEADER_SIZE + h.index_length > r.md_pages_reserved * h.fs_page_size THEN LoadReturn(r, "fail", "header + index does not fit within md_pages_reserved")
  ELSE IF (~r.open) /\ (h.tick_num = r.file_md_header.tick_num) THEN LoadReturn(r, "ok", "none")
  ELSE IF (~r.open) /\ (h.tick_num < r.file_md_header.tick_num) THEN LoadReturn(r, "fail", "tick number read is less than local copy")
  ELSE [r EXCEPT !.pc = "idx", !.md_header = h, !.hdr_image = image, !.header_retries = 0, !.index_retries = H5FD_VFD_SWMR_MD_INDEX_RETRY_MAX]

\* one pass of the read loop of H5FD__vfd_swmr_header_deserialize and what follows it
ReadHeader(r, mdf) ==
  IF Len(mdf) < H5FD_MD_HEADER_SIZE THEN NextAttempt(r)
  ELSE Bind(MdRead(mdf, H5FD_MD_HEADER_OFF, H5FD_MD_HEADER_SIZE), LAMBDA image :
    IF HeaderImageValid(image) THEN HeaderLoaded(r, HeaderDecode(image), image)
    ELSE IF r.header_retries - 1 = 0 THEN NextAttempt(r)
    ELSE [r EXCEPT !.header_retries = r.header_retries - 1])

\* a faulty reader that takes an index one tick behind the header
IndexLoadedSkewed(r, x, image) ==
  IF (r.md_header.tick_num = x.tick_num) \/ (r.md_header.tick_num = x.tick_num + 1) THEN LoadReturn([r EXCEPT !.file_md_header = r.md_header, !.file_md_index = x, !.file_hdr_image = r.hdr_image, !.file_idx_image = image, !.installed = TRUE], "ok", "none")
  ELSE IF r.md_header.tick_num > x.tick_num + 1 THEN LoadReturn(r, "fail", "tick number mis-match in header and index")
  ELSE NextAttempt(r)

\* a faulty reader that gives up at the first index that is one tick behind the header
IndexLoadedNoRetry(r, x, image) ==
  IF r.md_header.tick_num = x.tick_num THEN LoadReturn([r EXCEPT !.file_md_header = r.md_header, !.file_md_index = x, !.file_hdr_image = r.hdr_image, !.file_idx_image = image, !.installed = TRUE], "ok", "none")
  ELSE IF r.md_header.tick_num > x.tick_num THEN LoadReturn(r, "fail", "tick number mis-match in header and index")
  ELSE NextAttempt(r)

\* H5FD__vfd_swmr_load_hdr_and_idx with the index x decoded: install both on equal ticks, fail on a header more than one tick ahead, else go round
IndexLoaded(r, x, image) ==
  IF r.md_header.tick_num = x.tick_num THEN LoadReturn([r EXCEPT !.file_md_header = r.md_header, !.file_md_index = x, !.file_hdr_image = r.hdr_image, !.file_idx_image = image, !.installed = TRUE], "ok", "none")
  ELSE IF r.md_header.tick_num > x.tick_num + 1 THEN LoadReturn(r, "fail", "tick number mis-match in header and index")
  ELSE NextAttempt([r EXCEPT !.skews = r.skews + (IF r.md_header.tick_num = x.tick_num + 1 THEN 1 ELSE 0)])

\* one pass of the read loop of H5FD__vfd_swmr_index_deserialize and what follows it; a short read is an error of the call, an entry count that runs past the image is a read past the buffer
ReadIndex(r, mdf) ==
  Bind(MdRead(mdf, r.md_header.index_offset, r.md_header.index_length), LAMBDA image :
    IF Len(image) < r.md_header.index_length THEN NextAttempt(r)
    ELSE IF Len(image) = 0 THEN LoadReturn(r, "ub", "none")
    ELSE IF IndexImageValid(image) THEN (IF IndexDecodeInBounds(image) THEN IndexLoaded(r, IndexDecode(image), image) ELSE LoadReturn(r, "ub", "none"))
    ELSE IF r.index_retries - 1 = 0 THEN NextAttempt(r)
    ELSE [r EXCEPT !.index_retries = r.index_retries - 1])

(***************************************************************************)
(* Reads through the reader (H5FD_vfd_swmr_read).  The call adds to the    *)
(* reader record:                                                          *)
(*   pb_configured       file->pb_configured                               *)
(*   addr, size, init_addr, init_size, page_offset, my_idx, cmp,           *)
(*   entry_retries, read_ptr   the parameters and locals of the call       *)
(*   buf                 the caller's buffer, a sequence of size fields    *)
(*   fpos                the position of the metadata file descriptor      *)
(*   served, from, attempt_bytes, called, was_configured   ghosts: the     *)
(*                       file the call went to ("md" or "lf") and the      *)
(*                       offset it went to, the fields the last attempt    *)
(*                       read, a call was made, pb_configured at the call  *)
(* and the positions "page" (at the head of the do-while that reads the    *)
(* entry) and "eof" (in the while loop that calls HDread until size is 0). *)
(***************************************************************************)
\* the caller's buffer before the call
UntouchedBuf(n) == [k \in 1 .. n |-> 0 - 1]

\* a faulty search that stops one probe early
RECURSIVE BinarySearchMissingLast(_, _, _, _, _)
BinarySearchMissingLast(index, target_page, lo, hi, my_idx) ==
  IF lo >= hi THEN [cmp |-> 0 - 1, my_idx |-> my_idx]
  ELSE Bind((lo + hi) \div 2, LAMBDA m :
    IF target_page < index[m + 1].hdf5_page_offset THEN BinarySearchMissingLast(index, target_page, lo, m - 1, m)
    ELSE IF index[m + 1].hdf5_page_offset < target_page THEN BinarySearchMissingLast(index, target_page, m + 1, hi, m)
    ELSE [cmp |-> 0, my_idx |-> m])

\* the binary search of H5FD_vfd_swmr_read on the cached index; my_idx counts from 0
RECURSIVE BinarySearch(_, _, _, _, _)
BinarySearch(index, target_page, lo, hi, my_idx) ==
  IF lo > hi THEN [cmp |-> 0 - 1, my_idx |-> my_idx]
  ELSE Bind((lo + hi) \div 2, LAMBDA m :
    IF target_page < index[m + 1].hdf5_page_offset THEN BinarySearch(index, target_page, lo, m - 1, m)
    ELSE IF index[m + 1].hdf5_page_offset < target_page THEN BinarySearch(index, target_page, m + 1, hi, m)
    ELSE [cmp |-> 0, my_idx |-> m])

\* H5FD_vfd_swmr_read returns; an aborted process or one in undefined behaviour makes no further call
ReadReturn(r, ret_value, err) == [r EXCEPT !.pc = IF ret_value \in {"abort", "ub"} THEN "dead" ELSE "idle", !.ret = ret_value, !.err = err, !.called = TRUE]

\* H5FD_read on the underlying HDF5 file
PassThrough(lf, addr, size) == [k \in 1 .. size |-> FileRead(lf, addr, size)[k - 1]]

\* the index entry the search stopped at
FoundEntry(r) == r.file_md_index.entries[r.my_idx + 1]

\* H5FD_vfd_swmr_read from its entry to the head of the do-while: the search, the pass through on a miss, the assertions on a hit
H5FD_vfd_swmr_read(r, nd, lf, addr, size) ==
  Bind(BinarySearch(r.file_md_index.entries, addr \div r.file_md_header.fs_page_size, 0, r.file_md_index.num_entries - 1, 0), LAMBDA f :
    Bind([r EXCEPT !.addr = addr, !.size = size, !.init_addr = addr, !.init_size = size, !.cmp = f.cmp, !.my_idx = f.my_idx, !.page_offset = 0, !.entry_retries = H5FD_VFD_SWMR_MD_INDEX_RETRY_MAX, !.read_ptr = 0, !.buf = UntouchedBuf(size), !.served = "none", !.from = 0, !.attempt_bytes = 0, !.was_configured = r.pb_configured, !.err = "none", !.ret = "none"], LAMBDA r1 :
      IF f.cmp # 0 THEN ReadReturn([r1 EXCEPT !.buf = PassThrough(lf, addr, size), !.served = "lf", !.from = addr], "ok", "none")
      ELSE Bind(addr - ((addr \div r.file_md_header.fs_page_size) * r.file_md_header.fs_page_size), LAMBDA page_offset :
        IF (~nd) /\ ~((page_offset = 0) \/ ((~r.pb_configured) /\ (page_offset + size <= r.file_md_header.fs_page_size))) THEN ReadReturn(r1, "abort", "none")
        ELSE IF (~nd) /\ ~((~r.pb_configured) \/ (size = FoundEntry(r1).length)) THEN ReadReturn(r1, "abort", "none")
        ELSE [r1 EXCEPT !.pc = "page", !.page_offset = page_offset])))

\* a faulty reader that takes whatever it read
VerifyEntryUnchecked(r) == ReadReturn(r, "ok", "none")

\* the foot of the do-while: compare the checksums, return, give up or go round
VerifyEntry(r) ==
  IF r.pb_configured /\ (FoundEntry(r).length > Len(r.buf)) THEN ReadReturn(r, "ub", "none")
  ELSE IF FoundEntry(r).chksum = (IF r.pb_configured THEN H5_checksum_metadata(r.buf, FoundEntry(r).length) ELSE FoundEntry(r).chksum) THEN ReadReturn(r, "ok", "none")
  ELSE IF r.entry_retries - 1 = 0 THEN ReadReturn([r EXCEPT !.entry_retries = 0], "fail", "error in reading the page/multi-page entry")
  ELSE [r EXCEPT !.entry_retries = r.entry_retries - 1, !.pc = "page"]

\* the while loop on size: HDread hands over what the file holds from fpos on, nothing at the end of the file
ReadEntryBytes(r, mdf) ==
  IF r.size = 0 THEN VerifyEntry(r)
  ELSE Bind(MdRead(mdf, r.fpos, r.size), LAMBDA got :
    Bind([r EXCEPT !.buf = [k \in 1 .. Len(r.buf) |-> IF (k > r.read_ptr) /\ (k <= r.read_ptr + Len(got)) THEN got[k - r.read_ptr] ELSE r.buf[k]], !.size = r.size - Len(got), !.addr = r.addr + Len(got), !.read_ptr = r.read_ptr + Len(got), !.fpos = r.fpos + Len(got), !.attempt_bytes = r.attempt_bytes + Len(got)], LAMBDA r1 :
      IF r1.size = 0 THEN VerifyEntry(r1) ELSE [r1 EXCEPT !.pc = "eof"]))

\* one pass of the do-while: seek to the entry, point read_ptr at buf, read, verify
ReadEntry(r, mdf) ==
  ReadEntryBytes([r EXCEPT !.fpos = (FoundEntry(r).md_file_page_offset * r.file_md_header.fs_page_size) + r.page_offset, !.read_ptr = 0, !.attempt_bytes = 0, !.served = "md", !.from = (FoundEntry(r).md_file_page_offset * r.file_md_header.fs_page_size) + r.page_offset], mdf)

\* H5FD_vfd_swmr_set_pb_configured
H5FD_vfd_swmr_set_pb_configured(r) == [r EXCEPT !.pb_configured = TRUE]

(***************************************************************************)
(* The writer's copy of the metadata file index (f->shared->mdf_idx), a    *)
(* record: mdf_idx the array, from slot 1; mdf_idx_entries_used;           *)
(* mdf_idx_len; the four counts H5PB_vfd_swmr__update_index hands back;    *)
(* ret.  entry_ptr holds the image it points to, <<>> for NULL.            *)
(***************************************************************************)
\* a slot of the index that was never written
BlankEntry == [hdf5_page_offset |-> 0, md_file_page_offset |-> 0, length |-> 0, chksum |-> 0, entry_ptr |-> <<>>, tick_of_last_change |-> 0, clean |-> FALSE, tick_of_last_flush |-> 0, delayed_flush |-> 0, moved_to_hdf5_file |-> FALSE]

\* the index a writer starts with
NewIndex(mdf_idx_len) == [mdf_idx |-> [k \in 1 .. mdf_idx_len |-> BlankEntry], mdf_idx_entries_used |-> 0, mdf_idx_len |-> mdf_idx_len, idx_ent_added |-> 0, idx_ent_modified |-> 0, idx_ent_not_in_tl |-> 0, idx_ent_not_in_tl_flushed |-> 0, ret |-> "ok", pending |-> FALSE]

\* HDassert in a function that works on the index
IdxAssert(w, nd, cond) == IF cond \/ nd THEN w ELSE [w EXCEPT !.ret = "abort"]

\* the binary search of H5PB_vfd_swmr__update_index between bottom and top (counted from 0): the slot of target_page, 0 for ie_ptr = NULL
RECURSIVE IndexProbe(_, _, _, _)
IndexProbe(idx, top, bottom, target_page) ==
  IF ~(top >= bottom) THEN 0
  ELSE IF idx[((top + bottom) \div 2) + 1].hdf5_page_offset < target_page THEN IndexProbe(idx, top, ((top + bottom) \div 2) + 1, target_page)
  ELSE IF idx[((top + bottom) \div 2) + 1].hdf5_page_offset > target_page THEN IndexProbe(idx, ((top + bottom) \div 2) - 1, bottom, target_page)
  ELSE ((top + bottom) \div 2) + 1

\* the fields H5PB_vfd_swmr__update_index sets in every index entry of a tick list entry
IndexEntryUpdated(ie, pbe, tick) == [ie EXCEPT !.entry_ptr = pbe.image, !.tick_of_last_change = tick, !.clean = ~pbe.is_dirty, !.tick_of_last_flush = IF ~pbe.is_dirty THEN tick ELSE 0]

\* the partial initialization of a new index entry
IndexEntryNew(pbe) == [BlankEntry EXCEPT !.hdf5_page_offset = pbe.page, !.md_file_page_offset = 0, !.length = pbe.size, !.chksum = 0, !.delayed_flush = pbe.delay_write_until, !.moved_to_hdf5_file = FALSE]

\* a body that takes every tick list entry for a new one
TickEntryAlwaysAdded(s, w, page) ==
  IF w.mdf_idx_entries_used + w.idx_ent_added >= w.mdf_idx_len THEN [w EXCEPT !.idx_ent_added = w.idx_ent_added + 1, !.ret = "exit"]
  ELSE [w EXCEPT !.idx_ent_added = w.idx_ent_added + 1, !.mdf_idx[w.mdf_idx_entries_used + w.idx_ent_added + 1] = IndexEntryUpdated(IndexEntryNew(s.ht[page]), s.ht[page], s.tick_num)]

\* the body of the first loop of H5PB_vfd_swmr__update_index for one tick list entry
TickEntryToIndex(s, w, page) ==
  Bind(IndexProbe(w.mdf_idx, w.mdf_idx_entries_used - 1, 0, page), LAMBDA k :
    IF k = 0
    THEN IF w.mdf_idx_entries_used + w.idx_ent_added >= w.mdf_idx_len THEN [w EXCEPT !.idx_ent_added = w.idx_ent_added + 1, !.ret = "exit"]
         ELSE [w EXCEPT !.idx_ent_added = w.idx_ent_added + 1, !.mdf_idx[w.mdf_idx_entries_used + w.idx_ent_added + 1] = IndexEntryUpdated(IndexEntryNew(s.ht[page]), s.ht[page], s.tick_num)]
    ELSE [w EXCEPT !.idx_ent_modified = w.idx_ent_modified + 1, !.mdf_idx[k] = IndexEntryUpdated(w.mdf_idx[k], s.ht[page], s.tick_num)])

\* the first loop: the tick list from its i-th entry on
RECURSIVE TickListToIndex(_, _, _)
TickListToIndex(s, w, i) ==
  IF w.ret # "ok" THEN w
  ELSE IF i > Len(s.tl) THEN w
  ELSE IF s.tl[i] < 0 THEN [w EXCEPT !.ret = "ub"]
  ELSE Then(TickEntryToIndex(s, w, s.tl[i]), LAMBDA w1 : TickListToIndex(s, w1, i + 1))

\* a body that takes every entry off the tick list for flushed
IndexEntryTakenForFlushed(s, w, i) ==
  IF ~(w.mdf_idx[i].tick_of_last_change < s.tick_num) THEN w
  ELSE Bind([w EXCEPT !.idx_ent_not_in_tl = w.idx_ent_not_in_tl + 1], LAMBDA w1 :
         IF w1.mdf_idx[i].clean THEN w1
         ELSE [w1 EXCEPT !.idx_ent_not_in_tl_flushed = w1.idx_ent_not_in_tl_flushed + 1, !.mdf_idx[i].clean = TRUE, !.mdf_idx[i].tick_of_last_flush = s.tick_num])

\* the body of the second loop for slot i: an entry that was not on the tick list
IndexEntryNotInTl(s, w, i) ==
  IF ~(w.mdf_idx[i].tick_of_last_change < s.tick_num) THEN w
  ELSE Bind([w EXCEPT !.idx_ent_not_in_tl = w.idx_ent_not_in_tl + 1], LAMBDA w1 :
         IF w1.mdf_idx[i].clean THEN w1
         ELSE IF (~InIndex(s, w1.mdf_idx[i].hdf5_page_offset)) \/ (~s.ht[w1.mdf_idx[i].hdf5_page_offset].is_dirty)
              THEN [w1 EXCEPT !.idx_ent_not_in_tl_flushed = w1.idx_ent_not_in_tl_flushed + 1, !.mdf_idx[i].clean = TRUE, !.mdf_idx[i].tick_of_last_flush = s.tick_num]
              ELSE w1)

\* the second loop: the slots in use from the i-th on
RECURSIVE IndexScan(_, _, _)
IndexScan(s, w, i) ==
  IF w.ret # "ok" THEN w
  ELSE IF i > w.mdf_idx_entries_used THEN w
  ELSE Then(IdxAssert(w, s.ndebug, (i = 1) \/ (w.mdf_idx[i - 1].hdf5_page_offset < w.mdf_idx[i].hdf5_page_offset)), LAMBDA w1 :
       Then(IndexEntryNotInTl(s, w1, i), LAMBDA w2 : IndexScan(s, w2, i + 1)))

\* H5PB_vfd_swmr__update_index: s is the machine state, which it only reads, w the index
H5PB_vfd_swmr__update_index(s, w) ==
  Then(IdxAssert([w EXCEPT !.idx_ent_added = 0, !.idx_ent_modified = 0, !.idx_ent_not_in_tl = 0, !.idx_ent_not_in_tl_flushed = 0, !.ret = "ok"], s.ndebug, s.vfd_swmr_writer), LAMBDA w0 :
  Then(TickListToIndex(s, w0, 1), LAMBDA w1 :
  Then(IndexScan(s, w1, 1), LAMBDA w2 :
  Then(IdxAssert(w2, s.ndebug, w2.idx_ent_modified + w2.idx_ent_not_in_tl = w2.mdf_idx_entries_used), LAMBDA w3 :
    IdxAssert(w3, s.ndebug, w3.idx_ent_modified + w3.idx_ent_not_in_tl + w3.idx_ent_added <= w3.mdf_idx_len)))))

(***************************************************************************)
(* The state machines: one open file and its page buffer (pb ... nops),    *)
(* and a metadata file md with its writer wr and one reader rd.            *)
(***************************************************************************)
VARIABLES pb, file, tick_num, prev_addr, ndebug, ret, rbuf, wlog, op, lastw, nops, md, wr, rd

pbvars == <<pb, file, tick_num, prev_addr, ndebug, ret, rbuf, wlog, op, lastw, nops>>

mdvars == <<md, wr, rd>>

vars == <<pbvars, mdvars>>

\* the index points to an entry that has been freed
FreedInIndex(b) == \E p \in DOMAIN b.ht : b.ht[p].freed

\* the machine state a call starts from; a call on a page buffer whose index points to a freed entry is taken to reach that entry, which is undefined
Machine == pb @@ [file |-> file, tick_num |-> tick_num, prev_addr |-> prev_addr, ndebug |-> ndebug, ret |-> IF FreedInIndex(pb) THEN "ub" ELSE "ok", rbuf |-> <<>>, wlog |-> {}, evlog |-> {}, read_err |-> FALSE, heap |-> Zeroes(PageSize)]

\* no write remembered
NoWrite == [type |-> "none", addr |-> 0, size |-> 0, stamp |-> 0]

\* the process is alive (no abort, no undefined behaviour so far) and the run is not over
Alive == (ret \in {"ok", "fail"}) /\ (nops < MaxOps)

\* the write a later read is compared with: the last one, if it succeeded
Remember(pending, outcome) == IF outcome = "ok" THEN pending ELSE NoWrite

\* the state after a call that ended in machine state r
Return(r, o, lw) ==
  /\ pb' = [k \in DOMAIN pb |-> r[k]]
  /\ file' = r.file
  /\ tick_num' = r.tick_num
  /\ prev_addr' = r.prev_addr
  /\ ret' = r.ret
  /\ rbuf' = r.rbuf
  /\ wlog' = r.wlog
  /\ op' = o
  /\ lastw' = Remember(lw, r.ret)
  /\ nops' = nops + 1
  /\ UNCHANGED <<ndebug, mdvars>>

\* the requests of the callers: the allocator hands out page 0 for small metadata objects, pages 1 .. NumMdPages-1 for one multi-page metadata object, and the pages after them for raw data
SmallMetaReqs == {[type |-> META, addr |-> a, size |-> PageSize \div 2] : a \in {0, PageSize \div 2}}

PageMetaReqs == {[type |-> META, addr |-> 0, size |-> PageSize]}

MultiMetaReqs == {[type |-> META, addr |-> PageSize, size |-> (NumMdPages - 1) * PageSize]}

\* raw data: at the start and in the middle of the first raw page, a byte less than a page, a page, a byte more
RawReqs == {[type |-> DRAW, addr |-> a, size |-> n] : a \in {NumMdPages * PageSize, NumMdPages * PageSize + (PageSize \div 2)}, n \in {PageSize - 1, PageSize, PageSize + 1}}

\* what the delay query can answer for a request: it is asked only by the SWMR writer, only for metadata
DelayChoices(r) == IF pb.vfd_swmr_writer /\ (r.type = META) THEN 0 .. MaxDelay ELSE {0}

\* the same, kept inside the file
InFile(reqs) == {r \in reqs : r.addr + r.size <= FileSize}

\* H5PB_write(f, type, addr, size, buf); the buffer of the n-th call of a run holds bytes no other call writes
Write(reqs) ==
  \E r \in InFile(reqs) : \E ticks \in DelayChoices(r) :
    /\ Alive
    /\ \E m0 \in {Machine} : \E r0 \in {H5PB_write(m0, r.type, r.addr, r.size, MkBuf(nops + 1, r.size), ticks)} : Return(r0, [name |-> "write", type |-> r.type, addr |-> r.addr, size |-> r.size], [type |-> r.type, addr |-> r.addr, size |-> r.size, stamp |-> nops + 1])

\* H5PB_read(f, type, addr, size, buf)
Read(reqs) ==
  \E r \in InFile(reqs) :
    /\ Alive
    /\ \E m0 \in {Machine} : \E r0 \in {H5PB_read(m0, r.type, r.addr, r.size)} : Return(r0, [name |-> "read", type |-> r.type, addr |-> r.addr, size |-> r.size], lastw)

\* H5PB_flush(f)
Flush ==
  /\ Alive
  /\ \E m0 \in {Machine} : \E r0 \in {H5PB_flush(m0)} : Return(r0, [name |-> "flush", type |-> "none", addr |-> 0, size |-> 0], lastw)

\* the page buffers a run starts with: max_pages, min_meta_perc, min_raw_perc
Configs == {<<2, 0, 0>>, <<2, 50, 50>>}

Init ==
  /\ \E c \in Configs, w \in BOOLEAN : pb = H5PB_create(c[1], c[2], c[3], w)
  /\ file = [a \in Addrs |-> 0]
  /\ tick_num = 0
  /\ prev_addr = HADDR_UNDEF
  /\ ndebug \in BOOLEAN
  /\ ret = "ok"
  /\ rbuf = <<>>
  /\ wlog = {}
  /\ op = [name |-> "create", type |-> "none", addr |-> 0, size |-> 0]
  /\ lastw = NoWrite
  /\ nops = 0
  /\ md = <<>>
  /\ wr = [tick_num |-> 0, todo |-> <<>>]
  /\ rd = NewReader(0)

\* reads and writes only
NextRW ==
  \/ Write(SmallMetaReqs \cup PageMetaReqs \cup MultiMetaReqs \cup RawReqs)
  \/ Read(SmallMetaReqs \cup PageMetaReqs \cup MultiMetaReqs \cup RawReqs)
  \/ Flush

SpecRW == Init /\ [][NextRW]_vars

\* raw data only
NextRaw ==
  \/ Write(RawReqs)
  \/ Read(RawReqs)
  \/ Flush

SpecRaw == Init /\ [][NextRaw]_vars

\* H5PB_dest(f)
Dest ==
  /\ Alive
  /\ pb.pb_open
  /\ \E m0 \in {Machine} : \E r0 \in {H5PB_dest(m0)} : Return(r0, [name |-> "dest", type |-> "none", addr |-> 0, size |-> 0], lastw)

\* H5PB_remove_entry(f, addr): the allocator has freed the page at addr
RemoveEntry ==
  \E page \in Pages :
    /\ Alive
    /\ pb.pb_open
    /\ \E m0 \in {Machine} : \E r0 \in {H5PB_remove_entry(m0, page * PageSize)} : Return(r0, [name |-> "remove", type |-> "none", addr |-> page * PageSize, size |-> PageSize], NoWrite)

\* H5PB_add_new_page(f, type, page_addr): the allocator has handed out the page at page_addr
AddNewPage ==
  \E page \in {0} \cup RdPages :
    /\ Alive
    /\ pb.pb_open
    /\ \E m0 \in {Machine} : \E r0 \in {H5PB_add_new_page(m0, IF page \in MdPages THEN META ELSE DRAW, page * PageSize)} : Return(r0, [name |-> "add", type |-> IF page \in MdPages THEN META ELSE DRAW, addr |-> page * PageSize, size |-> PageSize], NoWrite)

\* the end of a tick in the SWMR writer, after the metadata file is published: drain the tick list, release the delayed writes that are due, start the next tick
EndOfTickSteps(s) ==
  Then(H5PB_vfd_swmr__release_tick_list(s), LAMBDA s1 :
  Then(H5PB_vfd_swmr__release_delayed_writes(s1), LAMBDA s2 :
  Then([s2 EXCEPT !.tick_num = s2.tick_num + 1], LAMBDA s3 :
    H5PB_vfd_swmr__set_tick(s3))))

EndOfTick ==
  /\ Alive
  /\ pb.pb_open
  /\ pb.vfd_swmr_writer
  /\ tick_num < MaxTick
  /\ \E m0 \in {Machine} : \E r0 \in {EndOfTickSteps(m0)} : Return(r0, [name |-> "eot", type |-> "none", addr |-> 0, size |-> 0], lastw)

\* every operation of the page buffer
Next ==
  \/ Write(SmallMetaReqs \cup MultiMetaReqs \cup {r \in RawReqs : r.size = PageSize})
  \/ Read(SmallMetaReqs \cup MultiMetaReqs \cup {r \in RawReqs : r.size = PageSize})
  \/ Flush
  \/ Dest
  \/ RemoveEntry
  \/ AddNewPage
  \/ EndOfTick

Spec == Init /\ [][Next]_vars

(***************************************************************************)
(* Replacement under pressure.  A run starts from a page buffer that       *)
(* earlier calls have filled: H5PB_add_new_page has made each page of a    *)
(* mix resident, H5PB_write has dirtied the dirty ones, the last page of   *)
(* the mix first, so that the mix reads as the LRU from its head.  The run *)
(* is one more call.  A page that is not resident has no type in the page  *)
(* buffer: the file space allocator may have handed it out again.          *)
(***************************************************************************)
\* the page buffers of these runs: max_pages, min_meta_perc, min_raw_perc
SpaceConfigs == {<<MaxSpacePages, 25, 25>>, <<MaxSpacePages - 2, 0, 0>>, <<MaxSpacePages - 2, 50, 50>>, <<MaxSpacePages - 2, 50, 0>>, <<MaxSpacePages - 2, 0, 50>>, <<MaxSpacePages - 2, 100, 0>>, <<MaxSpacePages - 2, 0, 100>>}

\* a resident page of a mix: metadata or raw data, clean or dirty
Kinds == [type : {META, DRAW}, dirty : BOOLEAN]

\* the mixes a page buffer of max_pages pages starts with: up to one page more than max_pages, and a page of the file left to load
Mixes(max_pages) == UNION {[1 .. n -> Kinds] : n \in 0 .. (IF max_pages + 1 < NumPages - 1 THEN max_pages + 1 ELSE NumPages - 1)}

\* the calls that make the pages of a mix resident, from the i-th page of the mix down to the first: page i-1 of the file becomes the i-th entry of the LRU
RECURSIVE FillPages(_, _, _)
FillPages(s, mix, i) ==
  IF i = 0 THEN s
  ELSE Then(H5PB_add_new_page(s, mix[i].type, (i - 1) * PageSize), LAMBDA s1 :
       Then(IF mix[i].dirty THEN H5PB_write(s1, mix[i].type, (i - 1) * PageSize, PageSize \div 2, MkBuf(1, PageSize \div 2), 0) ELSE s1, LAMBDA s2 :
         FillPages(s2, mix, i - 1)))

\* the machine state after H5PB_create and the calls of a mix
Filled(c, w, nd, mix) == FillPages(H5PB_create(c[1], c[2], c[3], w) @@ [file |-> [a \in Addrs |-> 0], tick_num |-> 0, prev_addr |-> HADDR_UNDEF, ndebug |-> nd, ret |-> "ok", rbuf |-> <<>>, wlog |-> {}, evlog |-> {}, read_err |-> FALSE, heap |-> Zeroes(PageSize)], mix, Len(mix))

InitSpace ==
  /\ ndebug \in BOOLEAN
  /\ \E c \in SpaceConfigs, w \in BOOLEAN : \E mix \in Mixes(c[1]) : \E s \in {Filled(c, w, ndebug, mix)} :
       /\ s.ret = "ok"
       /\ s.curr_pages = Len(mix)
       /\ pb = [k \in DOMAIN H5PB_create(c[1], c[2], c[3], w) |-> s[k]]
       /\ file = s.file
       /\ prev_addr = s.prev_addr
  /\ tick_num = 0
  /\ ret = "ok"
  /\ rbuf = <<>>
  /\ wlog = {}
  /\ op = [name |-> "create", type |-> "none", addr |-> 0, size |-> 0]
  /\ lastw = NoWrite
  /\ nops = 0
  /\ md = <<>>
  /\ wr = [tick_num |-> 0, todo |-> <<>>]
  /\ rd = NewReader(0)

\* ghost: what a call of these runs for a page did to the resident pages: whether it found the page resident, the counters it started from and the entries it evicted
Replaced(m0, r0, page) == [resident |-> InIndex(m0, page), curr_pages |-> m0.curr_pages, curr_md_pages |-> m0.curr_md_pages, curr_rd_pages |-> m0.curr_rd_pages, evicted |-> {[page |-> p, is_metadata |-> m0.ht[p].is_metadata] : p \in DOMAIN m0.ht \ DOMAIN r0.ht}]

\* the types a caller can name for a page: the type of the resident entry, any for a page that is not resident
TypesOf(page) == IF InIndex(pb, page) THEN {IF pb.ht[page].is_metadata THEN META ELSE DRAW} ELSE {META, DRAW}

\* H5PB_read of the first half of a page
SpaceRead ==
  \E page \in Pages : \E type \in TypesOf(page) :
    /\ nops = 0
    /\ \E m0 \in {Machine} : \E r0 \in {H5PB_read(m0, type, page * PageSize, PageSize \div 2)} : Return(r0, [name |-> "read", type |-> type, addr |-> page * PageSize, size |-> PageSize \div 2, was |-> Replaced(m0, r0, page)], NoWrite)

\* H5PB_write of the first half of a page, with no delay asked for
SpaceWrite ==
  \E page \in Pages : \E type \in TypesOf(page) :
    /\ nops = 0
    /\ \E m0 \in {Machine} : \E r0 \in {H5PB_write(m0, type, page * PageSize, PageSize \div 2, MkBuf(2, PageSize \div 2), 0)} : Return(r0, [name |-> "write", type |-> type, addr |-> page * PageSize, size |-> PageSize \div 2, was |-> Replaced(m0, r0, page)], NoWrite)

\* H5PB_add_new_page for a page that is not resident
SpaceAdd ==
  \E page \in Pages \ DOMAIN pb.ht : \E type \in {META, DRAW} :
    /\ nops = 0
    /\ \E m0 \in {Machine} : \E r0 \in {H5PB_add_new_page(m0, type, page * PageSize)} : Return(r0, [name |-> "add", type |-> type, addr |-> page * PageSize, size |-> PageSize, was |-> Replaced(m0, r0, page)], NoWrite)

NextSpace ==
  \/ SpaceRead
  \/ SpaceWrite
  \/ SpaceAdd

SpecSpace == InitSpace /\ [][NextSpace]_vars

(***************************************************************************)
(* The tick of the page buffer against the tick of the file.  The file's   *)
(* tick is the caller's: here it may take any value between two calls.     *)
(***************************************************************************)
InitTick == Init /\ pb.vfd_swmr_writer

\* the caller sets f->shared->tick_num
FileTickMoves ==
  /\ Alive
  /\ \E t \in (0 .. MaxTick) \ {tick_num} : tick_num' = t
  /\ UNCHANGED <<pb, file, prev_addr, ndebug, ret, rbuf, wlog, op, lastw, nops, mdvars>>

\* H5PB_vfd_swmr__set_tick(f)
SetTick ==
  /\ Alive
  /\ \E m0 \in {Machine} : \E r0 \in {H5PB_vfd_swmr__set_tick(m0)} : Return(r0, [name |-> "set_tick", type |-> "none", addr |-> 0, size |-> 0], lastw)

NextTick ==
  \/ FileTickMoves
  \/ SetTick
  \/ Write(SmallMetaReqs)

SpecTick == InitTick /\ [][NextTick]_vars

(***************************************************************************)
(* Delayed writes.  A SWMR writer has loaded metadata page 0; it writes to *)
(* it, flushes, reads raw data and ends ticks.  A cycle is the end of a    *)
(* tick as the page buffer sees it: the tick list is drained, the file's   *)
(* tick advances by one, the page buffer is told, and the delayed writes   *)
(* that are due are released.  lastw remembers the write that put page 0   *)
(* on the delayed write list: stamp is the tick it was made in.            *)
(***************************************************************************)
\* the machine state after H5PB_create and the first read of page 0
Loaded(nd) == H5PB_read(H5PB_create(2, 0, 0, TRUE) @@ [file |-> [a \in Addrs |-> 0], tick_num |-> 0, prev_addr |-> HADDR_UNDEF, ndebug |-> nd, ret |-> "ok", rbuf |-> <<>>, wlog |-> {}, evlog |-> {}, read_err |-> FALSE, heap |-> Zeroes(PageSize)], META, 0, PageSize \div 2)

InitDelay ==
  /\ ndebug \in BOOLEAN
  /\ \E s \in {Loaded(ndebug)} :
       /\ pb = [k \in DOMAIN H5PB_create(2, 0, 0, TRUE) |-> s[k]]
       /\ file = s.file
       /\ prev_addr = s.prev_addr
       /\ ret = s.ret
       /\ rbuf = s.rbuf
  /\ tick_num = 0
  /\ wlog = {}
  /\ op = [name |-> "read", type |-> META, addr |-> 0, size |-> PageSize \div 2]
  /\ lastw = NoWrite
  /\ nops = 0
  /\ md = <<>>
  /\ wr = [tick_num |-> 0, todo |-> <<>>]
  /\ rd = NewReader(0)

\* the state after a call of these runs, which are not counted; lw is the write to remember
Proceed(r, o, lw) ==
  /\ pb' = [k \in DOMAIN pb |-> r[k]]
  /\ file' = r.file
  /\ tick_num' = r.tick_num
  /\ prev_addr' = r.prev_addr
  /\ ret' = r.ret
  /\ rbuf' = r.rbuf
  /\ wlog' = r.wlog
  /\ op' = o
  /\ lastw' = lw
  /\ UNCHANGED <<ndebug, nops, mdvars>>

\* the process is alive
Running == ret \in {"ok", "fail"}

\* H5PB_write to the first half of metadata page 0; ticks is what the delay query would answer
DelayedWrite ==
  \E ticks \in 0 .. MaxWriteDelay :
    /\ Running
    /\ \E m0 \in {Machine} : \E r0 \in {H5PB_write(m0, META, 0, PageSize \div 2, MkBuf(tick_num + 1, PageSize \div 2), ticks)} :
         Proceed(r0, [name |-> "write", type |-> META, addr |-> 0, size |-> PageSize \div 2],
                 IF InIndex(m0, 0) /\ (~m0.ht[0].is_dirty) /\ m0.ht[0].loaded /\ (ticks > 0) THEN [type |-> META, addr |-> 0, size |-> PageSize \div 2, stamp |-> tick_num, ticks |-> ticks] ELSE lastw)

\* H5PB_read of the first half of a page: page 0, or a page of raw data
DelayRead ==
  \E page \in {0} \cup RdPages :
    /\ Running
    /\ \E m0 \in {Machine} : \E r0 \in {H5PB_read(m0, IF page = 0 THEN META ELSE DRAW, page * PageSize, PageSize \div 2)} :
         Proceed(r0, [name |-> "read", type |-> IF page = 0 THEN META ELSE DRAW, addr |-> page * PageSize, size |-> PageSize \div 2], lastw)

\* H5PB_flush(f)
DelayFlush ==
  /\ Running
  /\ \E m0 \in {Machine} : \E r0 \in {H5PB_flush(m0)} : Proceed(r0, [name |-> "flush", type |-> "none", addr |-> 0, size |-> 0], lastw)

\* one cycle
TickCycleSteps(s) ==
  Then(H5PB_vfd_swmr__release_tick_list(s), LAMBDA s1 :
  Then([s1 EXCEPT !.tick_num = s1.tick_num + 1], LAMBDA s2 :
  Then(H5PB_vfd_swmr__set_tick(s2), LAMBDA s3 :
    H5PB_vfd_swmr__release_delayed_writes(s3))))

TickCycle ==
  /\ Running
  /\ tick_num < MaxCycles
  /\ \E m0 \in {Machine} : \E r0 \in {TickCycleSteps(m0)} : Proceed(r0, [name |-> "cycle", type |-> "none", addr |-> 0, size |-> 0], lastw)

NextDelay ==
  \/ DelayedWrite
  \/ DelayRead
  \/ DelayFlush
  \/ TickCycle

SpecDelay == InitDelay /\ [][NextDelay]_vars

(***************************************************************************)
(* The release of the tick list, seen on its own: a SWMR writer reads,     *)
(* writes, flushes and ends ticks, and a run ends with the call of         *)
(* H5PB_vfd_swmr__release_tick_list that opens an end of tick.             *)
(***************************************************************************)
\* H5PB_vfd_swmr__release_tick_list(f), the last call of the run
ReleaseTickList ==
  /\ Alive
  /\ \E m0 \in {Machine} : \E r0 \in {H5PB_vfd_swmr__release_tick_list(m0)} :
       /\ pb' = [k \in DOMAIN pb |-> r0[k]]
       /\ file' = r0.file
       /\ tick_num' = r0.tick_num
       /\ prev_addr' = r0.prev_addr
       /\ ret' = r0.ret
       /\ rbuf' = r0.rbuf
       /\ wlog' = r0.wlog
       /\ op' = [name |-> "release_tl", type |-> "none", addr |-> 0, size |-> 0]
       /\ nops' = MaxOps
       /\ UNCHANGED <<ndebug, lastw, mdvars>>

NextRelease ==
  \/ Write(SmallMetaReqs \cup MultiMetaReqs \cup {r \in RawReqs : r.size = PageSize})
  \/ Read(SmallMetaReqs \cup MultiMetaReqs \cup {r \in RawReqs : r.size = PageSize})
  \/ Flush
  \/ EndOfTick
  \/ ReleaseTickList

SpecRelease == InitTick /\ [][NextRelease]_vars

(***************************************************************************)
(* The index of the writer.  wr is the writer's copy of the index.  At the *)
(* end of a tick the writer calls H5PB_vfd_swmr__update_index, takes the   *)
(* added entries into the index, sorts it, writes the metadata file, and   *)
(* goes through the rest of the end of the tick.                           *)
(***************************************************************************)
InitIndex ==
  /\ pb = H5PB_create(2, 0, 0, TRUE)
  /\ file = [a \in Addrs |-> 0]
  /\ tick_num = 0
  /\ prev_addr = HADDR_UNDEF
  /\ ndebug \in BOOLEAN
  /\ ret = "ok"
  /\ rbuf = <<>>
  /\ wlog = {}
  /\ op = [name |-> "create", type |-> "none", addr |-> 0, size |-> 0]
  /\ lastw = NoWrite
  /\ nops = 0
  /\ md = <<>>
  /\ \E n \in {1, MaxIndexLen} : wr = NewIndex(n)
  /\ rd = NewReader(0)

\* H5PB_vfd_swmr__update_index(f, ...); a call that does not return ends the process
UpdateIndex ==
  /\ Running
  /\ ~wr.pending
  /\ \E m0 \in {Machine} : \E w0 \in {H5PB_vfd_swmr__update_index(m0, wr)} :
       /\ wr' = [w0 EXCEPT !.pending = TRUE]
       /\ ret' = w0.ret
  /\ op' = [name |-> "update_index", type |-> "none", addr |-> 0, size |-> 0]
  /\ wlog' = {}
  /\ UNCHANGED <<pb, file, tick_num, prev_addr, ndebug, rbuf, lastw, nops, md, rd>>

\* the place of slot i among the first n slots in the order of hdf5_page_offset
RankInIndex(idx, n, i) == Cardinality({j \in 1 .. n : (idx[j].hdf5_page_offset < idx[i].hdf5_page_offset) \/ ((idx[j].hdf5_page_offset = idx[i].hdf5_page_offset) /\ (j < i))}) + 1

\* the index after the writer has taken in the added entries, sorted it and written the metadata file
IndexPublished(w) == [w EXCEPT !.mdf_idx = [k \in 1 .. w.mdf_idx_len |-> IF k <= w.mdf_idx_entries_used + w.idx_ent_added THEN [w.mdf_idx[CHOOSE i \in 1 .. (w.mdf_idx_entries_used + w.idx_ent_added) : RankInIndex(w.mdf_idx, w.mdf_idx_entries_used + w.idx_ent_added, i) = k] EXCEPT !.entry_ptr = <<>>] ELSE w.mdf_idx[k]], !.mdf_idx_entries_used = w.mdf_idx_entries_used + w.idx_ent_added, !.pending = FALSE]

\* the rest of the end of the tick
FinishTick ==
  /\ Running
  /\ wr.pending
  /\ tick_num < MaxTick
  /\ wr' = IndexPublished(wr)
  /\ \E m0 \in {Machine} : \E r0 \in {EndOfTickSteps(m0)} :
       /\ pb' = [k \in DOMAIN pb |-> r0[k]]
       /\ file' = r0.file
       /\ tick_num' = r0.tick_num
       /\ prev_addr' = r0.prev_addr
       /\ ret' = r0.ret
       /\ rbuf' = r0.rbuf
       /\ wlog' = r0.wlog
  /\ op' = [name |-> "eot", type |-> "none", addr |-> 0, size |-> 0]
  /\ UNCHANGED <<ndebug, lastw, nops, md, rd>>

\* the calls between two ends of tick
DuringTick ==
  /\ ~wr.pending
  /\ \/ Write(SmallMetaReqs \cup MultiMetaReqs)
     \/ Flush

NextIndex ==
  \/ DuringTick
  \/ UpdateIndex
  \/ FinishTick

SpecIndex == InitIndex /\ [][NextIndex]_vars

(***************************************************************************)
(* The metadata cache reads an object of unknown size speculatively and    *)
(* then again with its exact size: reads of a page and of several pages at *)
(* the address of page 0, among small reads and writes of the page.        *)
(***************************************************************************)
\* how many pages the exact read takes
ExactPages == 4

SpeculativeReqs == {[type |-> META, addr |-> a, size |-> n * PageSize] : a \in {0, PageSize}, n \in {1, ExactPages}}

NextSpeculative ==
  \/ Read(SpeculativeReqs \cup SmallMetaReqs)
  \/ Write(SmallMetaReqs)
  \/ Flush

SpecSpeculative == Init /\ [][NextSpeculative]_vars

(***************************************************************************)
(* Two open files in one process.  Each file has its own page buffer; the  *)
(* second file has just been opened, or has read a small metadata object   *)
(* since.  What a call on the second file does to its own page buffer is   *)
(* of no interest here: the runs keep what it leaves in the process, the   *)
(* function-static prev_addr of H5PB__read_meta.                           *)
(***************************************************************************)
\* the page buffer and the file of the second file, in a process whose prev_addr is prev
OtherFiles(prev) ==
  {[s EXCEPT !.prev_addr = prev] :
     s \in {H5PB_create(2, 0, 0, FALSE) @@ [file |-> [a \in Addrs |-> 0], tick_num |-> 0, prev_addr |-> prev, ndebug |-> ndebug, ret |-> "ok", rbuf |-> <<>>, wlog |-> {}, evlog |-> {}, read_err |-> FALSE, heap |-> Zeroes(PageSize)]} \cup
            {H5PB_read(H5PB_create(2, 0, 0, FALSE) @@ [file |-> [a \in Addrs |-> 0], tick_num |-> 0, prev_addr |-> prev, ndebug |-> ndebug, ret |-> "ok", rbuf |-> <<>>, wlog |-> {}, evlog |-> {}, read_err |-> FALSE, heap |-> Zeroes(PageSize)], q.type, q.addr, q.size) : q \in SmallMetaReqs}}

\* H5PB_read(f2, type, addr, size, buf) of metadata on the second file
OtherFileRead ==
  \E q \in InFile(SpeculativeReqs \cup SmallMetaReqs) : \E m2 \in OtherFiles(prev_addr) : \E r2 \in {H5PB_read(m2, q.type, q.addr, q.size)} :
    /\ Alive
    /\ pb.pb_open
    /\ m2.ret = "ok"
    /\ r2.ret \in {"ok", "fail"}
    /\ prev_addr' = r2.prev_addr
    /\ UNCHANGED <<pb, file, tick_num, ndebug, ret, rbuf, wlog, op, lastw, nops, mdvars>>

\* H5PB_read(f, type, addr, size, buf) of a small metadata object while the driver fails
MetaReadWithReadError ==
  \E r \in SmallMetaReqs : \E h \in {Zeroes(PageSize), MkBuf(9, PageSize)} :
    /\ Alive
    /\ \E m0 \in {[Machine EXCEPT !.read_err = TRUE, !.heap = h]} : \E r0 \in {H5PB_read(m0, r.type, r.addr, r.size)} : Return(r0, [name |-> "read_err", type |-> r.type, addr |-> r.addr, size |-> r.size], lastw)

NextTwoFiles ==
  \/ Read(SpeculativeReqs \cup SmallMetaReqs)
  \/ MetaReadWithReadError
  \/ OtherFileRead

SpecTwoFiles == Init /\ [][NextTwoFiles]_vars

(***************************************************************************)
(* Calls inside a multi-page metadata entry.  The callers of these runs    *)
(* do not keep to the pages the allocator handed out: small metadata       *)
(* objects are read and written, and a page is added, inside the pages of  *)
(* the multi-page metadata object, at page boundaries and off them.        *)
(***************************************************************************)
\* small metadata requests in the first page of the multi-page object (off the boundary) and in its second page (on and off it)
InsideReqs == {[type |-> META, addr |-> a, size |-> PageSize \div 2] : a \in {PageSize + 1, 2 * PageSize, 2 * PageSize + 1}}

\* H5PB_add_new_page(f, type, page_addr) for the second page of the multi-page object
AddInside ==
  /\ Alive
  /\ pb.pb_open
  /\ \E m0 \in {Machine} : \E r0 \in {H5PB_add_new_page(m0, META, 2 * PageSize)} : Return(r0, [name |-> "add", type |-> META, addr |-> 2 * PageSize, size |-> PageSize], NoWrite)

NextInside ==
  \/ Write(MultiMetaReqs \cup InsideReqs)
  \/ Read(MultiMetaReqs \cup InsideReqs)
  \/ AddInside

SpecInside == Init /\ [][NextInside]_vars

(***************************************************************************)
(* Creation.  A run starts with a file that has no page buffer and a       *)
(* request to create one; small writes follow the call.                    *)
(***************************************************************************)
\* the largest size asked for, in pages (a byte more is asked for too)
MaxCreatePages == 3

\* what the file open asks for: the size in bytes, the two percentages, the file space strategy, the SWMR writer
CreateReqs == [size : 0 .. (MaxCreatePages * PageSize + 1), perc : {<<0, 0>>, <<25, 25>>, <<50, 50>>, <<100, 0>>, <<0, 100>>}, paged : BOOLEAN, writer : BOOLEAN]

InitCreate ==
  /\ pb = NoPageBuffer
  /\ file = [a \in Addrs |-> 0]
  /\ tick_num = 0
  /\ prev_addr = HADDR_UNDEF
  /\ ndebug \in BOOLEAN
  /\ ret = "ok"
  /\ rbuf = <<>>
  /\ wlog = {}
  /\ \E q \in CreateReqs : op = [name |-> "open", type |-> "none", addr |-> 0, size |-> q.size, perc |-> q.perc, paged |-> q.paged, writer |-> q.writer]
  /\ lastw = NoWrite
  /\ nops = 0
  /\ md = <<>>
  /\ wr = [tick_num |-> 0, todo |-> <<>>]
  /\ rd = NewReader(0)

\* H5PB_create(f, size, page_buf_min_meta_perc, page_buf_min_raw_perc)
Create ==
  /\ op.name = "open"
  /\ \E m0 \in {Machine} : \E r0 \in {CreateFromSize(m0, op.size, op.paged, op.perc[1], op.perc[2], op.writer)} : Return(r0, [op EXCEPT !.name = "pb_create"], NoWrite)

NextCreate ==
  \/ Create
  \/ (op.name # "open") /\ Write(SmallMetaReqs \cup {r \in RawReqs : r.size < PageSize})

SpecCreate == InitCreate /\ [][NextCreate]_vars

(***************************************************************************)
(* A file driver whose reads can fail.  The failure lasts for one call;    *)
(* the image of an entry that was allocated and not filled holds whatever  *)
(* malloc handed out.                                                      *)
(***************************************************************************)
\* what malloc can hand out for a page image: zeroes, or what an earlier owner left
HeapImages == {Zeroes(PageSize), MkBuf(9, PageSize)}

\* requests that touch one page
OnePageReqs == SmallMetaReqs \cup {r \in RawReqs : (r.size < PageSize) /\ (r.addr % PageSize = 0)}

\* H5PB_read(f, type, addr, size, buf) while the driver fails
ReadWithReadError ==
  \E r \in OnePageReqs : \E h \in HeapImages :
    /\ Alive
    /\ \E m0 \in {[Machine EXCEPT !.read_err = TRUE, !.heap = h]} : \E r0 \in {H5PB_read(m0, r.type, r.addr, r.size)} : Return(r0, [name |-> "read_err", type |-> r.type, addr |-> r.addr, size |-> r.size], lastw)

\* H5PB_write(f, type, addr, size, buf) while the driver fails
WriteWithReadError ==
  \E r \in OnePageReqs : \E h \in HeapImages :
    /\ Alive
    /\ \E m0 \in {[Machine EXCEPT !.read_err = TRUE, !.heap = h]} : \E r0 \in {H5PB_write(m0, r.type, r.addr, r.size, MkBuf(nops + 1, r.size), 0)} : Return(r0, [name |-> "write_err", type |-> r.type, addr |-> r.addr, size |-> r.size], lastw)

NextLoadFail ==
  \/ ReadWithReadError
  \/ WriteWithReadError
  \/ Read(OnePageReqs)
  \/ Write(OnePageReqs)
  \/ Flush

SpecLoadFail == Init /\ [][NextLoadFail]_vars

(***************************************************************************)
(* Removal.  The allocator frees pages of a writer that has written them,  *)
(* with and without delay, in the current tick and in earlier ones.        *)
(***************************************************************************)
\* ghost: what the entry of the page was when H5PB_remove_entry was called
Removed(b, page) == IF InIndex(b, page) THEN [found |-> TRUE, is_dirty |-> b.ht[page].is_dirty, modified_this_tick |-> b.ht[page].modified_this_tick, delayed |-> b.ht[page].delay_write_until > 0, is_mpmde |-> b.ht[page].is_mpmde] ELSE [found |-> FALSE, is_dirty |-> FALSE, modified_this_tick |-> FALSE, delayed |-> FALSE, is_mpmde |-> FALSE]

\* H5PB_remove_entry(f, addr)
RemoveObserved ==
  \E page \in {0, 1, NumMdPages} :
    /\ Alive
    /\ \E m0 \in {Machine} : \E r0 \in {H5PB_remove_entry(m0, page * PageSize)} : Return(r0, [name |-> "remove", type |-> "none", addr |-> page * PageSize, size |-> PageSize, was |-> Removed(m0, page)], NoWrite)

\* H5PB_flush(f), not counted among the calls of the run
FlushBetween ==
  /\ Alive
  /\ \E m0 \in {Machine} : \E r0 \in {H5PB_flush(m0)} : Proceed(r0, [name |-> "flush", type |-> "none", addr |-> 0, size |-> 0], lastw)

NextRemove ==
  \/ Write(SmallMetaReqs \cup MultiMetaReqs \cup {r \in RawReqs : r.size < PageSize})
  \/ FlushBetween
  \/ EndOfTick
  \/ RemoveObserved

SpecRemove == Init /\ [][NextRemove]_vars

(***************************************************************************)
(* Replacement with a class below its minimum.  The page buffer has no     *)
(* SWMR writer and reserves two of its pages for one class; earlier calls  *)
(* have filled it as above, and the run is one more call.                  *)
(***************************************************************************)
\* the page buffers of these runs: max_pages, min_meta_perc, min_raw_perc
PolicyConfigs == {<<MaxSpacePages, 50, 25>>, <<MaxSpacePages, 25, 50>>}

InitPolicy ==
  /\ ndebug \in BOOLEAN
  /\ \E c \in PolicyConfigs : \E mix \in Mixes(c[1]) : \E s \in {Filled(c, FALSE, ndebug, mix)} :
       /\ s.ret = "ok"
       /\ s.curr_pages = Len(mix)
       /\ pb = [k \in DOMAIN H5PB_create(c[1], c[2], c[3], FALSE) |-> s[k]]
       /\ file = s.file
       /\ prev_addr = s.prev_addr
  /\ tick_num = 0
  /\ ret = "ok"
  /\ rbuf = <<>>
  /\ wlog = {}
  /\ op = [name |-> "create", type |-> "none", addr |-> 0, size |-> 0]
  /\ lastw = NoWrite
  /\ nops = 0
  /\ md = <<>>
  /\ wr = [tick_num |-> 0, todo |-> <<>>]
  /\ rd = NewReader(0)

SpecPolicy == InitPolicy /\ [][NextSpace]_vars

(***************************************************************************)
(* The metadata file, rewritten by its writer without locks while a reader *)
(* loads it.                                                               *)
(***************************************************************************)
\* the fewest reserved pages that hold the header and the longest index
MinReserved == CHOOSE p \in 1 .. MdFileLen : (p * PageSize >= MdFileLen) /\ ((p - 1) * PageSize < MdFileLen)

\* the writer starts to publish its next tick: the header and the index of the tick, in one order or the other
WriterPublish ==
  /\ wr.todo = <<>>
  /\ wr.tick_num < MaxPublishedTick
  /\ \E header_first \in BOOLEAN : wr' = [tick_num |-> wr.tick_num + 1, todo |-> PublishWrites(wr.tick_num + 1, header_first)]
  /\ UNCHANGED <<pbvars, md, rd>>

\* the writer writes the next field of what it is publishing
WriterWrite ==
  /\ wr.todo # <<>>
  /\ md' = [md EXCEPT ![Head(wr.todo)[1]] = Head(wr.todo)[2]]
  /\ wr' = [wr EXCEPT !.todo = Tail(wr.todo)]
  /\ UNCHANGED <<pbvars, rd>>

\* a writer that starts over: the metadata file is back at an earlier tick
WriterStartsOver ==
  /\ wr.todo = <<>>
  /\ \E t \in 1 .. (wr.tick_num - 1) : (md' = PublishedFile(t)) /\ (wr' = [tick_num |-> t, todo |-> <<>>])
  /\ UNCHANGED <<pbvars, rd>>

\* H5FD_vfd_swmr_open calls H5FD__vfd_swmr_load_hdr_and_idx(file, TRUE)
ReaderOpen ==
  /\ rd.pc = "closed"
  /\ rd' = StartLoad(rd, TRUE)
  /\ UNCHANGED <<pbvars, md, wr>>

\* H5FD_vfd_swmr_get_tick_and_idx(file, TRUE, ...) calls H5FD__vfd_swmr_load_hdr_and_idx(file, FALSE)
ReaderReload ==
  /\ rd.pc = "idle"
  /\ rd' = StartLoad(rd, FALSE)
  /\ UNCHANGED <<pbvars, md, wr>>

\* the reader reads the header
ReaderReadHeader ==
  /\ rd.pc = "hdr"
  /\ rd' = ReadHeader(rd, md)
  /\ UNCHANGED <<pbvars, md, wr>>

\* the reader reads the index
ReaderReadIndex ==
  /\ rd.pc = "idx"
  /\ rd' = ReadIndex(rd, md)
  /\ UNCHANGED <<pbvars, md, wr>>

InitReader ==
  /\ pb = H5PB_create(2, 0, 0, FALSE)
  /\ file = [a \in Addrs |-> 0]
  /\ tick_num = 0
  /\ prev_addr = HADDR_UNDEF
  /\ ndebug = FALSE
  /\ ret = "ok"
  /\ rbuf = <<>>
  /\ wlog = {}
  /\ op = [name |-> "create", type |-> "none", addr |-> 0, size |-> 0]
  /\ lastw = NoWrite
  /\ nops = 0
  /\ md = PublishedFile(1)
  /\ wr = [tick_num |-> 1, todo |-> <<>>]
  /\ \E p \in {MinReserved - 1, MinReserved} : rd = NewReader(p)

NextReader ==
  \/ WriterPublish
  \/ WriterWrite
  \/ WriterStartsOver
  \/ ReaderOpen
  \/ ReaderReload
  \/ ReaderReadHeader
  \/ ReaderReadIndex

SpecReader == InitReader /\ [][NextReader]_vars

(***************************************************************************)
(* A reader that serves reads from the metadata file while the writer is   *)
(* still writing the pages the index points to.                            *)
(***************************************************************************)
\* the fewest reserved pages that hold the header and an index of MaxIndexLen entries
ServeReserved == CHOOSE p \in 1 .. (H5FD_MD_HEADER_SIZE + H5FD_MD_INDEX_SIZE(MaxIndexLen)) : (p * PageSize >= H5FD_MD_HEADER_SIZE + H5FD_MD_INDEX_SIZE(MaxIndexLen)) /\ ((p - 1) * PageSize < H5FD_MD_HEADER_SIZE + H5FD_MD_INDEX_SIZE(MaxIndexLen))

\* the strictly increasing sequences of at most MaxIndexLen metadata pages of the HDF5 file
SortedPages == {s \in UNION {[1 .. n -> MdPages] : n \in 0 .. MaxIndexLen} : \A i \in DOMAIN s : \A j \in DOMAIN s : (i < j) => (s[i] < s[j])}

\* the image of page p the writer publishes
PageImage(p) == [k \in 1 .. PageSize |-> (10 * (p + 1)) + k]

\* the index of the pages s: the entries in the order of s, their images in the reverse order behind the reserved pages
ServeIndex(s) == [tick_num |-> 1, num_entries |-> Len(s), entries |-> [i \in 1 .. Len(s) |-> [hdf5_page_offset |-> s[i], md_file_page_offset |-> ServeReserved + (Len(s) - i), length |-> PageSize, chksum |-> H5_checksum_metadata(PageImage(s[i]), PageSize)]]]

ServeHeader(s) == [fs_page_size |-> PageSize, tick_num |-> 1, index_offset |-> H5FD_MD_HEADER_SIZE, index_length |-> H5FD_MD_INDEX_SIZE(Len(s))]

\* the reserved pages of the metadata file: header, index, zeroes
ServeFileHead(s) == [k \in 1 .. (ServeReserved * PageSize) |-> IF k <= H5FD_MD_HEADER_SIZE THEN HeaderImage(ServeHeader(s))[k] ELSE IF k - H5FD_MD_HEADER_SIZE <= H5FD_MD_INDEX_SIZE(Len(s)) THEN IndexImage(ServeIndex(s))[k - H5FD_MD_HEADER_SIZE] ELSE 0]

\* the images of the pages s as they lie behind the reserved pages
RECURSIVE ServePageFields(_, _)
ServePageFields(s, n) == IF n = 0 THEN <<>> ELSE PageImage(s[n]) \o ServePageFields(s, n - 1)

\* the metadata file as the reader finds it, and what the writer has still to write
ServeFiles(s) ==
  { [md |-> ServeFileHead(s) \o ServePageFields(s, Len(s)), todo |-> <<>>],
    [md |-> ServeFileHead(s) \o [k \in 1 .. (Len(s) * PageSize) |-> 0], todo |-> FieldWrites(ServeReserved * PageSize, ServePageFields(s, Len(s)))],
    [md |-> ServeFileHead(s), todo |-> FieldWrites(ServeReserved * PageSize, ServePageFields(s, Len(s)))],
    [md |-> [ServeFileHead(s) \o ServePageFields(s, Len(s)) EXCEPT ![H5FD_MD_HEADER_SIZE] = 0], todo |-> <<<<H5FD_MD_HEADER_SIZE, HeaderImage(ServeHeader(s))[H5FD_MD_HEADER_SIZE]>>>>],
    [md |-> [ServeFileHead(s) \o ServePageFields(s, Len(s)) EXCEPT ![H5FD_MD_HEADER_SIZE + 1] = 0], todo |-> <<<<H5FD_MD_HEADER_SIZE + 1, H5FD_MD_INDEX_MAGIC>>>>],
    [md |-> <<>>, todo |-> <<>>] }

\* the addresses and sizes of the reads: a page, its first half or its second half, of every metadata page and of the first raw data page
ServeReqs == {[addr |-> (p * PageSize) + o, size |-> n] : p \in 0 .. NumMdPages, o \in {0, PageSize \div 2}, n \in {PageSize \div 2, PageSize}} \ {[addr |-> (p * PageSize) + (PageSize \div 2), size |-> PageSize] : p \in 0 .. NumMdPages}

\* the writer writes the next field of a page, at the end of the file if the file ends there
WriterWritesOn ==
  /\ wr.todo # <<>>
  /\ md' = IF Head(wr.todo)[1] <= Len(md) THEN [md EXCEPT ![Head(wr.todo)[1]] = Head(wr.todo)[2]] ELSE Append(md, Head(wr.todo)[2])
  /\ wr' = [wr EXCEPT !.todo = Tail(wr.todo)]
  /\ UNCHANGED <<pbvars, rd>>

\* the library tells the reader that the page buffer is configured
ReaderSetPbConfigured ==
  /\ rd.pc = "idle"
  /\ ~rd.pb_configured
  /\ rd' = H5FD_vfd_swmr_set_pb_configured(rd)
  /\ UNCHANGED <<pbvars, md, wr>>

\* a call of H5FD_vfd_swmr_read
ReaderRead ==
  /\ rd.pc = "idle"
  /\ \E q \in ServeReqs : rd' = H5FD_vfd_swmr_read(rd, ndebug, file, q.addr, q.size)
  /\ UNCHANGED <<pbvars, md, wr>>

\* the call seeks to the entry and reads it
ReaderReadEntry ==
  /\ rd.pc = "page"
  /\ rd' = ReadEntry(rd, md)
  /\ UNCHANGED <<pbvars, md, wr>>

\* the call reads on after a read that did not fill the buffer
ReaderReadOn ==
  /\ rd.pc = "eof"
  /\ rd' = ReadEntryBytes(rd, md)
  /\ UNCHANGED <<pbvars, md, wr>>

InitServe ==
  /\ pb = H5PB_create(2, 0, 0, FALSE)
  /\ file = [a \in Addrs |-> 100 + a]
  /\ tick_num = 0
  /\ prev_addr = HADDR_UNDEF
  /\ ndebug \in BOOLEAN
  /\ ret = "ok"
  /\ rbuf = <<>>
  /\ wlog = {}
  /\ op = [name |-> "create", type |-> "none", addr |-> 0, size |-> 0]
  /\ lastw = NoWrite
  /\ nops = 0
  /\ \E s \in SortedPages : \E f \in ServeFiles(s) : (md = f.md) /\ (wr = [tick_num |-> 1, todo |-> f.todo])
  /\ rd = NewReader(ServeReserved)

\* the steps of the reader inside a call
ReaderGoesOn ==
  \/ ReaderReadHeader
  \/ ReaderReadIndex
  \/ ReaderReadEntry
  \/ ReaderReadOn

NextServe ==
  \/ WriterWritesOn
  \/ ReaderOpen
  \/ ReaderSetPbConfigured
  \/ ReaderRead
  \/ ReaderGoesOn

SpecServe == InitServe /\ [][NextServe]_vars

\* the reader is scheduled; nothing is assumed of the writer
SpecServeFair == SpecServe /\ WF_vars(ReaderGoesOn)

(***************************************************************************)
(* Properties.                                                             *)
(***************************************************************************)
\* C1: a successful read of exactly what the last successful write wrote (same class, address and size) returns the bytes written
C1_ReadReturnsWritten == ((op.name = "read") /\ (ret = "ok") /\ (lastw.type = op.type) /\ (lastw.addr = op.addr) /\ (lastw.size = op.size)) => (rbuf = MkBuf(lastw.stamp, lastw.size))

\* C2: when H5PB_flush returns success, no entry of the index is dirty and the file holds the image of every entry that was dirty at the call
C2_FlushLeavesNothingDirty == [][((op'.name = "flush") /\ (ret' = "ok")) => ((\A p \in DOMAIN pb'.ht : ~pb'.ht[p].is_dirty) /\ (\A p \in DOMAIN pb.ht : pb.ht[p].is_dirty => (FileRead(file', pb.ht[p].addr, pb.ht[p].size) = pb.ht[p].image)))]_vars

\* a flush of the SWMR writer has succeeded after writing an entry that was on the tick list and on the delayed write list
C2_Witness == (op.name = "flush") /\ (ret = "ok") /\ pb.vfd_swmr_writer /\ (Len(pb.tl) > 0) /\ (Len(pb.dwl) > 0) /\ (\E w \in wlog : w.modified_this_tick /\ (w.delay_write_until > 0))

\* the entry but for its dirty flag
Undirtied(e) == [e EXCEPT !.is_dirty = FALSE]

\* the members of a list
Members(q) == {q[i] : i \in 1 .. Len(q)}

\* C3: H5PB_flush keeps the set of entries, every field of every entry but the dirty flag, the page counters, the tick list, the delayed write list and the members of the LRU
C3_FlushFrame == [][(op'.name = "flush") => ((DOMAIN pb'.ht = DOMAIN pb.ht) /\ (\A p \in DOMAIN pb.ht : Undirtied(pb'.ht[p]) = Undirtied(pb.ht[p])) /\ (pb'.curr_pages = pb.curr_pages) /\ (pb'.curr_md_pages = pb.curr_md_pages) /\ (pb'.curr_rd_pages = pb.curr_rd_pages) /\ (pb'.mpmde_count = pb.mpmde_count) /\ (pb'.tl = pb.tl) /\ (pb'.dwl = pb.dwl) /\ (Members(pb'.LRU) = Members(pb.LRU)) /\ (Len(pb'.LRU) = Len(pb.LRU)))]_vars

\* a flush has written a page of a buffer that holds a page on its LRU and a multi-page metadata entry
C3_Witness == (op.name = "flush") /\ (ret = "ok") /\ (wlog # {}) /\ (Len(pb.LRU) >= 1) /\ (pb.mpmde_count > 0) /\ (pb.curr_pages >= 2)

\* C4: after H5PB_dest returns success the index and the three lists are empty and the page counters are zero
C4_DestEmptiesEverything == ((op.name = "dest") /\ (ret = "ok")) => ((DOMAIN pb.ht = {}) /\ (Len(pb.LRU) = 0) /\ (Len(pb.tl) = 0) /\ (Len(pb.dwl) = 0) /\ (pb.curr_pages = 0) /\ (pb.curr_md_pages = 0) /\ (pb.curr_rd_pages = 0) /\ (pb.mpmde_count = 0))

\* C5: H5PB_dest called with an entry whose delay_write_until is positive returns failure, or success with that entry flushed and evicted; it does not end in a failed assertion or worse
C5_DestRefusesDelayed == [][((op'.name = "dest") /\ (\E p \in DOMAIN pb.ht : pb.ht[p].delay_write_until > 0)) => ((ret' = "fail") \/ ((ret' = "ok") /\ (DOMAIN pb'.ht = {}) /\ (Len(pb'.dwl) = 0)))]_vars

\* C6: in the SWMR writer no call writes the image of an entry that is on the tick list or whose write delay has not elapsed
C6_NoWriteBeforePublication == pb.vfd_swmr_writer => (\A w \in wlog : (~w.modified_this_tick) /\ (w.delay_write_until = 0))

\* the records the reader keeps
Cached(r) == <<r.file_md_header, r.file_md_index>>

\* the header and the index as a read of the reader finds them at this moment
HeaderOnDisk == MdRead(md, H5FD_MD_HEADER_OFF, H5FD_MD_HEADER_SIZE)

IndexOnDisk == MdRead(md, rd.md_header.index_offset, rd.md_header.index_length)

\* the reader is about to read a header that passes the magic and checksum tests
ReadsValidHeader == (rd.pc = "hdr") /\ HeaderImageValid(HeaderOnDisk)

\* the reader is about to read an index that passes the magic and checksum tests and decodes within its image
ReadsValidIndex == (rd.pc = "idx") /\ (Len(IndexOnDisk) = rd.md_header.index_length) /\ IndexImageValid(IndexOnDisk) /\ IndexDecodeInBounds(IndexOnDisk)

\* C7: whenever a load has returned success, the cached header and the cached index carry the same tick_num and are the decodings of a header image and an index image that passed the magic and checksum tests
C7_LoadedPairIsCoherent == ((rd.pc = "idle") /\ (rd.ret = "ok")) => ((rd.file_md_header.tick_num = rd.file_md_index.tick_num) /\ HeaderImageValid(rd.file_hdr_image) /\ (HeaderDecode(rd.file_hdr_image) = rd.file_md_header) /\ IndexImageValid(rd.file_idx_image) /\ IndexDecodeInBounds(rd.file_idx_image) /\ (IndexDecode(rd.file_idx_image) = rd.file_md_index))

\* a load has installed a later tick, after going round at least once, while the writer is in the middle of publishing
C7_Witness == (rd.pc = "idle") /\ (rd.ret = "ok") /\ rd.installed /\ (rd.file_md_header.tick_num >= 2) /\ (rd.load_retries < H5FD_VFD_SWMR_MD_LOAD_RETRY_MAX) /\ (wr.todo # <<>>)

\* C8: a load that finds the index one tick behind the header goes round from the header if an attempt is left and fails with the retry-exhausted error if none is, the cached records kept either way; a load that finds equal ticks succeeds and installs the header and the index it read
C8_SkewRetriedThenSettled == [][(ReadsValidIndex /\ (rd' # rd)) => ((((rd.md_header.tick_num = IndexDecode(IndexOnDisk).tick_num + 1) /\ (rd.load_retries > 1)) => ((rd'.pc = "hdr") /\ (rd'.load_retries = rd.load_retries - 1) /\ (Cached(rd') = Cached(rd)))) /\ (((rd.md_header.tick_num = IndexDecode(IndexOnDisk).tick_num + 1) /\ (rd.load_retries = 1)) => ((rd'.pc \in {"idle", "dead"}) /\ (rd'.ret = "fail") /\ (rd'.err = "error in loading/decoding the metadata file header and index") /\ (Cached(rd') = Cached(rd)))) /\ ((rd.md_header.tick_num = IndexDecode(IndexOnDisk).tick_num) => ((rd'.pc = "idle") /\ (rd'.ret = "ok") /\ (rd'.file_md_header = rd.md_header) /\ (rd'.file_md_index = IndexDecode(IndexOnDisk)))))]_vars

\* a load has succeeded after an attempt that found the index one tick behind the header
C8_Witness == (rd.pc = "idle") /\ (rd.ret = "ok") /\ rd.installed /\ (rd.skews > 0)

\* C9: the tick_num of the cached header, and the tick handed back to the caller, never decrease; a reload that reads a valid header with a tick_num below the cached one returns failure and keeps the cached records
C9_CachedTickNeverDecreases == [][(rd'.file_md_header.tick_num >= rd.file_md_header.tick_num) /\ (rd'.tick >= rd.tick) /\ ((ReadsValidHeader /\ (~rd.open) /\ (rd' # rd) /\ (HeaderDecode(HeaderOnDisk).tick_num < rd.file_md_header.tick_num)) => ((rd'.pc = "idle") /\ (rd'.ret = "fail") /\ (Cached(rd') = Cached(rd))))]_vars

\* a reload has been refused because the tick of the header on disk was below the cached one
C9_Witness == (rd.pc = "idle") /\ (rd.ret = "fail") /\ (rd.err = "tick number read is less than local copy") /\ (rd.file_md_header.tick_num >= 2)

\* C10: a reload that reads a valid header with the tick_num of the cached header returns success at once, the index not read, and keeps the cached header and the cached index, entries and count
C10_SameTickReloadIsNoOp == [][(ReadsValidHeader /\ (~rd.open) /\ (rd' # rd) /\ (HeaderDecode(HeaderOnDisk).tick_num = rd.file_md_header.tick_num)) => ((rd'.pc = "idle") /\ (rd'.ret = "ok") /\ (~rd'.installed) /\ (Cached(rd') = Cached(rd)) /\ (rd'.file_idx_image = rd.file_idx_image))]_vars

\* a reload has returned success without installing anything, the cached index holding an entry
C10_Witness == (rd.pc = "idle") /\ (rd.ret = "ok") /\ (~rd.open) /\ (~rd.installed) /\ (rd.file_md_index.num_entries > 0) /\ (rd.tick = rd.file_md_header.tick_num)

\* the busy positions of the reader: inside a load or inside a read
InCall == rd.pc \in {"hdr", "idx", "page", "eof"}

\* C11: whatever the writer does to the metadata file, every call of the reader that is scheduled comes to an end: open, reload and read return to their caller (or end the process) instead of waiting without bound
C11_ReaderCallsEnd == [](InCall => <>(rd.pc \in {"idle", "dead"}))

\* the entries of the cached index for the page of the read
Hits == {i \in 1 .. rd.file_md_index.num_entries : rd.file_md_index.entries[i].hdf5_page_offset = rd.init_addr \div rd.file_md_header.fs_page_size}

\* C12: a read goes to the metadata file, at (md_file_page_offset * page_size) + (addr mod page_size), exactly if the sorted cached index has an entry for page addr / page_size, and the search stops at that entry; otherwise it goes unchanged to the underlying file
C12_ServedIffIndexed == (rd.called \/ (rd.pc \in {"page", "eof"})) => (((rd.cmp = 0) <=> (Hits # {})) /\ ((rd.cmp = 0) => ((rd.my_idx + 1) \in Hits)) /\ ((rd.served = "md") => ((rd.cmp = 0) /\ (rd.from = (FoundEntry(rd).md_file_page_offset * rd.file_md_header.fs_page_size) + (rd.init_addr % rd.file_md_header.fs_page_size)))) /\ ((rd.served = "lf") <=> (Hits = {})) /\ ((rd.served = "lf") => ((rd.from = rd.init_addr) /\ (rd.ret = "ok") /\ (rd.buf = PassThrough(file, rd.init_addr, rd.init_size)))))

C12_Witness == (rd.pc = "idle") /\ (rd.ret = "ok") /\ (rd.served = "md") /\ (rd.file_md_index.num_entries = MaxIndexLen) /\ (rd.my_idx = MaxIndexLen - 1) /\ (rd.buf = PageImage(rd.init_addr \div PageSize))

\* C13 as claimed: a read of a whole entry served from the metadata file returns success only with bytes whose checksum is the checksum of the index entry, whether or not the page buffer is configured
C13_ServedBytesPassChecksum == ((rd.pc = "idle") /\ (rd.ret = "ok") /\ (rd.served = "md") /\ (rd.init_size = FoundEntry(rd).length)) => (H5_checksum_metadata(rd.buf, Len(rd.buf)) = FoundEntry(rd).chksum)

\* C13: once the page buffer is configured, a read served from the metadata file returns success only with bytes whose checksum is the checksum of the index entry
C13_ConfiguredReadsPassChecksum == ((rd.pc = "idle") /\ (rd.ret = "ok") /\ (rd.served = "md") /\ rd.was_configured) => ((Len(rd.buf) >= FoundEntry(rd).length) /\ (H5_checksum_metadata(rd.buf, FoundEntry(rd).length) = FoundEntry(rd).chksum))

C13_Witness == (rd.pc = "idle") /\ (rd.ret = "ok") /\ (rd.served = "md") /\ rd.was_configured /\ (rd.buf = PageImage(rd.init_addr \div PageSize)) /\ (rd.entry_retries = H5FD_VFD_SWMR_MD_INDEX_RETRY_MAX) /\ (rd.file_md_index.num_entries > 1)

\* what the metadata file holds where the read in progress seeks to
EntryOnDisk == MdRead(md, (FoundEntry(rd).md_file_page_offset * rd.file_md_header.fs_page_size) + rd.page_offset, rd.init_size)

\* C14: every attempt of a served read, the first and the ones after a checksum mismatch, reads the requested size from the metadata file into the caller's buffer; an attempt that finds the page complete returns success
C14_RetryReadsAgain == [][((rd.pc = "page") /\ (rd' # rd) /\ (Len(EntryOnDisk) = rd.init_size) /\ (rd'.ret # "ub")) => ((rd'.buf = EntryOnDisk) /\ ((rd.pb_configured /\ (rd.init_size = FoundEntry(rd).length) /\ (H5_checksum_metadata(EntryOnDisk, rd.init_size) = FoundEntry(rd).chksum)) => ((rd'.pc = "idle") /\ (rd'.ret = "ok"))))]_vars


\* a call of a run under replacement pressure that asked for a page of raw data, or of metadata
Inserting(type) == (nops = 1) /\ (op.name \in {"read", "write"}) /\ (op.type = type)

\* C15: H5PB__make_space evicts no metadata page for a raw data insertion while curr_md_pages <= min_md_pages, and no raw data page for a metadata insertion while curr_rd_pages <= min_rd_pages; with max_pages 4, min_md_pages 1, min_rd_pages 1 and three raw data pages and one metadata page resident in any LRU order, one more raw data insertion evicts a raw data page and leaves the metadata page resident
C15_MinimaProtected ==
  /\ Inserting(DRAW) =>
       /\ (op.was.curr_md_pages <= pb.min_md_pages) => (\A e \in op.was.evicted : ~e.is_metadata)
       /\ pb.curr_md_pages >= (IF op.was.curr_md_pages <= pb.min_md_pages THEN op.was.curr_md_pages ELSE pb.min_md_pages)
  /\ Inserting(META) =>
       /\ (op.was.curr_rd_pages <= pb.min_rd_pages) => (\A e \in op.was.evicted : e.is_metadata)
       /\ pb.curr_rd_pages >= (IF op.was.curr_rd_pages <= pb.min_rd_pages THEN op.was.curr_rd_pages ELSE pb.min_rd_pages)
  /\ (Inserting(DRAW) /\ (pb.max_pages = 4) /\ (pb.min_md_pages = 1) /\ (pb.min_rd_pages = 1) /\ (op.was.curr_rd_pages = 3) /\ (op.was.curr_md_pages = 1) /\ ~op.was.resident) =>
       /\ \E e \in op.was.evicted : ~e.is_metadata
       /\ \A e \in op.was.evicted : ~e.is_metadata
       /\ pb.curr_md_pages = 1

\* the fifth insertion of the example has happened: a raw data page was evicted for it, with the metadata page at the tail of the LRU
C15_Witness ==
  /\ Inserting(DRAW) /\ (ret = "ok")
  /\ (pb.max_pages = 4) /\ (pb.min_md_pages = 1) /\ (pb.min_rd_pages = 1)
  /\ (op.was.curr_rd_pages = 3) /\ (op.was.curr_md_pages = 1) /\ ~op.was.resident
  /\ InIndex(pb, op.addr \div PageSize) /\ (pb.curr_pages = 4)
  /\ \E e \in op.was.evicted : ~e.is_metadata
  /\ pb.ht[pb.LRU[Len(pb.LRU)]].is_metadata

\* C16: without SWMR, when H5PB_add_new_page has left curr_pages above max_pages, the next H5PB__load_page that succeeds returns with curr_pages <= max_pages, whatever the resident pages are and whatever min_md_pages and min_rd_pages
C16_LoadRestoresMaxPages ==
  ((nops = 1) /\ (op.name \in {"read", "write"}) /\ (~pb.vfd_swmr_writer) /\ (~op.was.resident) /\ InIndex(pb, op.addr \div PageSize) /\ (ret = "ok") /\ (op.was.curr_pages > pb.max_pages)) => (pb.curr_pages <= pb.max_pages)

\* a page was loaded into a page buffer that page allocations had filled beyond max_pages, and entries were evicted for it
C16_Witness ==
  /\ (nops = 1) /\ (op.name = "read") /\ (~pb.vfd_swmr_writer) /\ (~op.was.resident) /\ InIndex(pb, op.addr \div PageSize) /\ (ret = "ok")
  /\ (op.was.curr_pages > pb.max_pages) /\ (pb.curr_pages <= pb.max_pages)
  /\ (pb.min_md_pages > 0) /\ (op.was.evicted # {})

\* C17: H5PB_vfd_swmr__set_tick succeeds exactly when the tick of the file is cur_tick + 1 and then takes it as cur_tick; otherwise it fails and leaves the page buffer as it was; so cur_tick only ever advances by 1
C17_TickStepsByOne ==
  [][/\ ((nops' # nops) /\ (op'.name = "set_tick")) =>
          IF tick_num = pb.cur_tick + 1
          THEN (ret' = "ok") /\ (pb' = [pb EXCEPT !.cur_tick = tick_num])
          ELSE (ret' = "fail") /\ (pb' = pb)
     /\ (pb'.cur_tick = pb.cur_tick) \/ (pb'.cur_tick = pb.cur_tick + 1)]_vars

\* the page buffer has followed the file for a tick or more and has then refused a tick that was not the next one
C17_Witness == (op.name = "set_tick") /\ (ret = "fail") /\ (pb.cur_tick >= 1) /\ (tick_num # pb.cur_tick + 1) /\ (DOMAIN pb.ht # {})

\* page 0 went onto the delayed write list by a write that was answered with a delay of 3 ticks
Delayed3 == (lastw # NoWrite) /\ (lastw.ticks = 3) /\ (ret = "ok")

\* C18 as claimed: a clean, loaded metadata page written at tick T with a delay of 3 leaves the LRU for the delayed write list with delay_write_until = T + 3, is neither flushed nor evicted while there, and the third cycle after the write (tick + 1, then H5PB_vfd_swmr__release_delayed_writes) puts it back on the LRU with delay_write_until = 0
C18_ReleasedAfterThreeCycles ==
  /\ (Delayed3 /\ (tick_num < lastw.stamp + 3)) =>
       /\ InIndex(pb, 0) /\ pb.ht[0].is_dirty /\ (pb.ht[0].delay_write_until = lastw.stamp + 3)
       /\ InSeq(pb.dwl, 0) /\ ~InSeq(pb.LRU, 0)
       /\ \A e \in wlog : e.page # 0
  /\ (Delayed3 /\ (tick_num = lastw.stamp + 3) /\ (op.name = "cycle")) =>
       /\ InIndex(pb, 0) /\ pb.ht[0].is_dirty /\ (pb.ht[0].delay_write_until = 0)
       /\ InSeq(pb.LRU, 0) /\ ~InSeq(pb.dwl, 0)

\* the bytes of the file where an entry lies
OnFile(f, e) == [i \in 0 .. (e.size - 1) |-> f[e.addr + i]]

\* C19: after a successful H5PB_vfd_swmr__release_tick_list the tick list is empty and no entry is modified_this_tick; a multi-page metadata entry that was on the tick list with no delay is written to the file and out of the index; one with a delay is resident and on the delayed write list; a regular page that was on the tick list is resident and on exactly one of the LRU and the delayed write list
C19_TickListReleased ==
  [][((op'.name = "release_tl") /\ (ret' = "ok")) =>
       /\ pb'.tl = <<>>
       /\ \A p \in DOMAIN pb'.ht : ~pb'.ht[p].modified_this_tick
       /\ \A i \in 1 .. Len(pb.tl) :
            IF pb.ht[pb.tl[i]].is_mpmde
            THEN IF pb.ht[pb.tl[i]].delay_write_until = 0
                 THEN (~InIndex(pb', pb.tl[i])) /\ (OnFile(file', pb.ht[pb.tl[i]]) = pb.ht[pb.tl[i]].image)
                 ELSE InIndex(pb', pb.tl[i]) /\ InSeq(pb'.dwl, pb.tl[i])
            ELSE InIndex(pb', pb.tl[i]) /\ (InSeq(pb'.LRU, pb.tl[i]) # InSeq(pb'.dwl, pb.tl[i]))]_vars

\* the tick list was released with a multi-page entry written and evicted and a regular page left resident
C19_Witness == (op.name = "release_tl") /\ (ret = "ok") /\ (pb.tl = <<>>) /\ (\E e \in wlog : (e.page = 1) /\ ~InIndex(pb, 1)) /\ (\E p \in DOMAIN pb.ht : (~pb.ht[p].is_mpmde) /\ pb.ht[p].is_dirty /\ pb.ht[p].is_metadata)

\* the slots of the index as H5PB_vfd_swmr__update_index leaves it: those in use and those it added
IndexSlots == 1 .. (wr.mdf_idx_entries_used + wr.idx_ent_added)

\* the slots that hold an entry for a page
SlotsOf(page) == {i \in IndexSlots : wr.mdf_idx[i].hdf5_page_offset = page}

\* C20: after H5PB_vfd_swmr__update_index at tick t the index holds exactly one entry for the page of every tick list entry, with entry_ptr its image, tick_of_last_change t, clean iff the entry is not dirty and tick_of_last_flush t if clean and 0 if not, whether the entry was in the index or was added by the call; and added + modified is the length of the tick list
C20_IndexFollowsTickList ==
  ((op.name = "update_index") /\ wr.pending /\ (wr.ret = "ok")) =>
    /\ \A k \in 1 .. Len(pb.tl) :
         /\ Cardinality(SlotsOf(pb.tl[k])) = 1
         /\ \A i \in SlotsOf(pb.tl[k]) :
              /\ wr.mdf_idx[i].entry_ptr = pb.ht[pb.tl[k]].image
              /\ wr.mdf_idx[i].tick_of_last_change = tick_num
              /\ wr.mdf_idx[i].clean = ~pb.ht[pb.tl[k]].is_dirty
              /\ wr.mdf_idx[i].tick_of_last_flush = (IF pb.ht[pb.tl[k]].is_dirty THEN 0 ELSE tick_num)
    /\ wr.idx_ent_added + wr.idx_ent_modified = Len(pb.tl)

\* one call has updated the entry of a page and added the entry of another
C20_Witness == (op.name = "update_index") /\ wr.pending /\ (wr.ret = "ok") /\ (wr.idx_ent_added >= 1) /\ (wr.idx_ent_modified >= 1) /\ (tick_num >= 1)

\* the slots in use whose page is not on the tick list
NotOnTickList == {i \in 1 .. wr.mdf_idx_entries_used : ~InSeq(pb.tl, wr.mdf_idx[i].hdf5_page_offset)}

\* C21: H5PB_vfd_swmr__update_index at tick t leaves a clean index entry whose page is not on the tick list as it was; one that is not clean becomes clean with tick_of_last_flush t exactly when the page buffer has no entry for the page or a clean one, and stays as it was otherwise; not_in_tl_flushed counts the entries that became clean, and modified + not_in_tl is the number of entries in use before the call
C21_EntriesOffTickList ==
  [][((op'.name = "update_index") /\ (~wr.pending) /\ wr'.pending /\ (wr'.ret = "ok")) =>
       /\ \A i \in NotOnTickList :
            IF wr.mdf_idx[i].clean THEN wr'.mdf_idx[i] = wr.mdf_idx[i]
            ELSE IF (~InIndex(pb, wr.mdf_idx[i].hdf5_page_offset)) \/ (~pb.ht[wr.mdf_idx[i].hdf5_page_offset].is_dirty)
                 THEN wr'.mdf_idx[i] = [wr.mdf_idx[i] EXCEPT !.clean = TRUE, !.tick_of_last_flush = tick_num]
                 ELSE wr'.mdf_idx[i] = wr.mdf_idx[i]
       /\ wr'.idx_ent_not_in_tl_flushed = Cardinality({i \in NotOnTickList : (~wr.mdf_idx[i].clean) /\ wr'.mdf_idx[i].clean})
       /\ wr'.idx_ent_modified + wr'.idx_ent_not_in_tl = wr.mdf_idx_entries_used]_vars

\* one call has found an entry flushed since its last change and has left another, still dirty in the page buffer, not clean
C21_Witness ==
  /\ (op.name = "update_index") /\ wr.pending /\ (wr.ret = "ok")
  /\ wr.idx_ent_not_in_tl_flushed >= 1
  /\ \E i \in 1 .. wr.mdf_idx_entries_used : (wr.mdf_idx[i].tick_of_last_change < tick_num) /\ (~wr.mdf_idx[i].clean) /\ InIndex(pb, wr.mdf_idx[i].hdf5_page_offset)

\* a metadata read of n bytes at address 0
MetaReadAtZero(o, n) == (o.name = "read") /\ (o.type = META) /\ (o.addr = 0) /\ (o.size = n)

\* C22: with no entry at page 0 and no multi-page metadata entry, a metadata read of one page at address 0 loads page 0 and serves the data from the entry; a read of ExactPages pages at address 0 that follows it at once evicts page 0 and returns every byte from the file, leaving no entry at page 0
C22_SpeculativeThenExact ==
  [][/\ (MetaReadAtZero(op', PageSize) /\ (~InIndex(pb, 0)) /\ (pb.mpmde_count = 0) /\ (pb.max_pages # pb.min_rd_pages)) =>
          /\ ret' = "ok"
          /\ InIndex(pb', 0)
          /\ rbuf' = pb'.ht[0].image
     /\ (MetaReadAtZero(op, PageSize) /\ MetaReadAtZero(op', ExactPages * PageSize) /\ (ret = "ok") /\ InIndex(pb, 0)) =>
          /\ ret' = "ok"
          /\ ~InIndex(pb', 0)
          /\ rbuf' = FileRead(file, 0, ExactPages * PageSize)]_vars

OverlaidBytes(b, f, addr, size) == [i \in 0 .. (size - 1) |-> IF InIndex(b, (addr + i) \div PageSize) /\ b.ht[(addr + i) \div PageSize].is_dirty THEN b.ht[(addr + i) \div PageSize].image[(addr + i) % PageSize] ELSE f[addr + i]]

\* a raw read of a page or more
BigRawRead(o) == (o.name = "read") /\ (o.type = DRAW) /\ (o.size >= PageSize)

\* C24: a raw read of a page or more, aligned or not at either end, completes without error and returns the file's bytes with the image of every resident dirty page laid over the bytes it shares with the range, a partly covered first or last page included; no entry is created or evicted
C24_BigRawReadOverlaysDirty ==
  [][(BigRawRead(op') /\ pb.pb_open /\ (pb.min_md_pages # pb.max_pages)) =>
       /\ ret' = "ok"
       /\ rbuf' = OverlaidBytes(pb, file, op'.addr, op'.size)
       /\ DOMAIN pb'.ht = DOMAIN pb.ht
       /\ file' = file]_vars

\* a raw write of a page or more
BigRawWrite(o) == (o.name = "write") /\ (o.type = DRAW) /\ (o.size >= PageSize)

\* page p lies entirely inside [addr, addr + size)
Covered(p, addr, size) == (addr <= p * PageSize) /\ ((p + 1) * PageSize <= addr + size)

\* page p shares bytes with [addr, addr + size)
Touched(p, addr, size) == (p * PageSize < addr + size) /\ (addr < (p + 1) * PageSize)

\* the image with the bytes it shares with [addr, addr + size) replaced by those of buf
Patched(image, p, addr, size, buf) == [j \in DOMAIN image |-> IF (addr <= p * PageSize + j) /\ (p * PageSize + j < addr + size) THEN buf[p * PageSize + j - addr] ELSE image[j]]

\* C25: after a raw write of a page or more the file holds the written bytes over the whole range; every resident page entirely inside the range, clean or dirty, is out of the index and its old image is not written to the file; every resident page partly inside the range is still resident, dirty, and its image is the previous one with the shared bytes replaced by the written data
C25_BigRawWrite ==
  [][(BigRawWrite(op') /\ pb.pb_open /\ (pb.min_md_pages # pb.max_pages)) =>
       /\ ret' = "ok"
       /\ FileRead(file', op'.addr, op'.size) = MkBuf(nops', op'.size)
       /\ \A a \in Addrs : ((a < op'.addr) \/ (a >= op'.addr + op'.size)) => (file'[a] = file[a])
       /\ wlog' = {}
       /\ \A p \in DOMAIN pb.ht :
            IF Covered(p, op'.addr, op'.size) THEN ~InIndex(pb', p)
            ELSE IF Touched(p, op'.addr, op'.size)
                 THEN InIndex(pb', p) /\ pb'.ht[p].is_dirty /\ (pb'.ht[p].image = Patched(pb.ht[p].image, p, op'.addr, op'.size, MkBuf(nops', op'.size)))
                 ELSE InIndex(pb', p) /\ (pb'.ht[p] = pb.ht[p])]_vars

\* the second call of a run has written the first raw page and one byte of the next; the first call had made both resident, and now the first is gone and the second is resident, dirty, with the byte patched
C25_Witness ==
  /\ (nops = 2) /\ BigRawWrite(op) /\ (op.addr = NumMdPages * PageSize) /\ (op.size = PageSize + 1) /\ (ret = "ok")
  /\ pb.pb_open /\ (pb.min_md_pages # pb.max_pages)
  /\ ~InIndex(pb, NumMdPages)
  /\ InIndex(pb, NumMdPages + 1) /\ pb.ht[NumMdPages + 1].is_dirty /\ (pb.ht[NumMdPages + 1].image[0] = MkBuf(2, PageSize + 1)[PageSize])

\* C26: H5PB_create succeeds only if the size asked for is a nonzero multiple of the page size or is more than a page (and is then rounded down to whole pages); a size of 0 or of less than a page makes it fail; after every successful create max_pages >= 1 and min_md_pages + min_rd_pages <= max_pages
C26_CreateChecksSize ==
  (op.name = "pb_create") =>
    /\ (ret = "ok") => (((op.size # 0) /\ (op.size % PageSize = 0)) \/ (op.size > PageSize))
    /\ ((op.size = 0) \/ (op.size < PageSize)) => (ret = "fail")
    /\ (ret = "ok") => ((pb.max_pages >= 1) /\ (pb.max_pages = op.size \div PageSize) /\ (pb.min_md_pages + pb.min_rd_pages <= pb.max_pages))

\* H5PB_add_new_page reaches H5PB__create_new_page for this type
CanInsert(b, type) == IF type = DRAW THEN b.min_md_pages # b.max_pages ELSE b.min_rd_pages # b.max_pages

\* C27: H5PB_add_new_page (H5PB__create_new_page) for a page address that has an entry in the index fails, and after the failure the page buffer is as before the call: the index, the lists, the counters and the existing entry with its image, dirty flag and list memberships
C27_FailedAddChangesNothing ==
  [][((op'.name = "add") /\ (~FreedInIndex(pb)) /\ InIndex(pb, op'.addr \div PageSize) /\ CanInsert(pb, op'.type)) =>
       /\ ret' = "fail"
       /\ pb' = pb
       /\ file' = file]_vars

\* the call ran while the file driver failed its reads
WithReadError(o) == o.name \in {"read_err", "write_err"}

\* C28: if the file driver's read fails while H5PB__load_page brings a page in, the read or write that asked for the page returns an error and the page buffer has no entry for the page: it is not in the index, not on the LRU, and the counters count the entries of the index
C28_FailedLoadLeavesNoEntry ==
  [][(WithReadError(op') /\ pb.pb_open /\ CanInsert(pb, op'.type) /\ (~InIndex(pb, op'.addr \div PageSize))) =>
       /\ ret' = "fail"
       /\ ~InIndex(pb', op'.addr \div PageSize)
       /\ ~InSeq(pb'.LRU, op'.addr \div PageSize)
       /\ pb'.curr_pages = Cardinality(DOMAIN pb'.ht)
       /\ pb'.curr_pages = pb.curr_pages
       /\ file' = file]_vars

\* the counters with the entry e taken out
Uncounted(b, e) == [b EXCEPT !.curr_pages = b.curr_pages - 1, !.mpmde_count = b.mpmde_count - (IF e.is_mpmde THEN 1 ELSE 0), !.curr_md_pages = b.curr_md_pages - (IF e.is_metadata /\ ~e.is_mpmde THEN 1 ELSE 0), !.curr_rd_pages = b.curr_rd_pages - (IF e.is_metadata THEN 0 ELSE 1)]

\* C29: after a successful H5PB_remove_entry(addr) the page of addr has no entry in the index, on the LRU, on the tick list or on the delayed write list, whatever its dirty flag, modified_this_tick and delay_write_until were; the call writes nothing to the file; the lists and counters lose exactly that entry; and if there was no entry the call changes nothing
C29_RemoveEntryRemoves ==
  [][((op'.name = "remove") /\ (ret' = "ok")) =>
       /\ ~InIndex(pb', op'.addr \div PageSize)
       /\ ~InSeq(pb'.LRU, op'.addr \div PageSize) /\ ~InSeq(pb'.tl, op'.addr \div PageSize) /\ ~InSeq(pb'.dwl, op'.addr \div PageSize)
       /\ file' = file /\ wlog' = {}
       /\ IF InIndex(pb, op'.addr \div PageSize)
          THEN /\ pb'.ht = [p \in (DOMAIN pb.ht) \ {op'.addr \div PageSize} |-> pb.ht[p]]
               /\ pb'.LRU = SeqRemove(pb.LRU, op'.addr \div PageSize)
               /\ pb'.tl = SeqRemove(pb.tl, op'.addr \div PageSize)
               /\ pb'.dwl = SeqRemove(pb.dwl, op'.addr \div PageSize)
               /\ [pb' EXCEPT !.ht = pb.ht, !.LRU = pb.LRU, !.tl = pb.tl, !.dwl = pb.dwl] = Uncounted(pb, pb.ht[op'.addr \div PageSize])
          ELSE pb' = pb]_vars

\* a removal has succeeded for an entry that was dirty, modified in this tick and delayed
RemovedDirtyTickedDelayed == (op.name = "remove") /\ (ret = "ok") /\ op.was.found /\ op.was.is_dirty /\ op.was.modified_this_tick /\ op.was.delayed

\* header h with its index fits in the pages the reader has reserved
Fits(r, h) == H5FD_MD_HEADER_SIZE + h.index_length <= r.md_pages_reserved * h.fs_page_size

\* C30: a reader never accepts a header whose H5FD_MD_HEADER_SIZE + index_length is more than md_pages_reserved * fs_page_size: when such a header is read H5FD__vfd_swmr_load_hdr_and_idx fails, no index is read for it, and the cached header and index stay as they were
C30_OversizedHeaderRejected ==
  [][/\ ((rd.pc = "hdr") /\ (rd'.pc # "hdr") /\ HeaderImageValid(HeaderOnDisk) /\ ~Fits(rd, HeaderDecode(HeaderOnDisk))) =>
          /\ rd'.ret = "fail"
          /\ rd'.pc \in {"idle", "dead"}
          /\ rd'.file_md_header = rd.file_md_header
          /\ rd'.file_md_index = rd.file_md_index
     /\ (rd'.pc = "idx") => Fits(rd', rd'.md_header)
     /\ (rd'.file_md_header # rd.file_md_header) => Fits(rd', rd'.file_md_header)]_vars

\* a reload has failed on a header that does not fit, and the reader keeps the header and the index it had cached
C30_Witness == (rd.pc = "idle") /\ (rd.ret = "fail") /\ (rd.err = "header + index does not fit within md_pages_reserved") /\ (rd.file_md_header.tick_num >= 1) /\ Fits(rd, rd.file_md_header) /\ (rd.file_md_index.tick_num = rd.file_md_header.tick_num)

\* the machine states the public calls of the page buffer end in when they start in this state
PublicCalls ==
  {H5PB_write(Machine, r.type, r.addr, r.size, MkBuf(nops + 1, r.size), ticks) : r \in InFile(SmallMetaReqs \cup MultiMetaReqs \cup {q \in RawReqs : q.size = PageSize}), ticks \in 0 .. MaxDelay}
  \cup {H5PB_read(Machine, r.type, r.addr, r.size) : r \in InFile(SmallMetaReqs \cup PageMetaReqs \cup MultiMetaReqs \cup {q \in RawReqs : q.size = PageSize})}
  \cup {H5PB_flush(Machine), H5PB_dest(Machine)}
  \cup {H5PB_remove_entry(Machine, page * PageSize) : page \in Pages}
  \cup {H5PB_add_new_page(Machine, IF page \in MdPages THEN META ELSE DRAW, page * PageSize) : page \in {0} \cup RdPages}
  \cup (IF pb.vfd_swmr_writer THEN {EndOfTickSteps(Machine)} ELSE {})

\* the entry may be evicted: it is on neither the tick list nor the delayed write list, and clean unless the eviction is forced
Evictable(e) == (~e.modified_this_tick) /\ (e.delay_write_until = 0) /\ (e.force \/ ~e.is_dirty) /\ (~e.on_tl) /\ (~e.on_dwl)

\* C31: whatever public call is made in a reachable state, SWMR writer or not, every entry it hands to H5PB__evict_entry has modified_this_tick = FALSE and delay_write_until = 0, is clean unless force is TRUE, and is on neither the tick list nor the delayed write list
C31_EvictedEntriesAreIdle == ((ret \in {"ok", "fail"}) /\ pb.pb_open /\ ~FreedInIndex(pb)) => (\A r0 \in PublicCalls : \A e \in r0.evlog : Evictable(e))

\* the entries of the index that have not been freed
Resident(b) == {p \in DOMAIN b.ht : ~b.ht[p].freed}

\* the call has returned (no abort, no undefined behaviour)
Returned == ret \in {"ok", "fail"}

\* C32: in every reachable state every resident single-page entry is on exactly one of the LRU and the delayed write list, and every multi-page metadata entry is off the LRU and on the delayed write list exactly when its delay_write_until > 0
C32_OneListPerEntry ==
  Returned => \A p \in Resident(pb) :
    IF ~pb.ht[p].is_mpmde THEN InSeq(pb.LRU, p) # InSeq(pb.dwl, p)
    ELSE (~InSeq(pb.LRU, p)) /\ (InSeq(pb.dwl, p) <=> (pb.ht[p].delay_write_until > 0))

\* C33: in every reachable state an entry has modified_this_tick = TRUE if and only if it is on the tick list, no entry is on the tick list twice, and the length of the tick list is the number of these entries
C33_TickListIsTheModified ==
  (Returned /\ pb.pb_open) =>
    /\ \A p \in Resident(pb) : pb.ht[p].modified_this_tick <=> InSeq(pb.tl, p)
    /\ \A i, j \in 1 .. Len(pb.tl) : (pb.tl[i] = pb.tl[j]) => (i = j)
    /\ Len(pb.tl) = Cardinality({p \in Resident(pb) : pb.ht[p].modified_this_tick})

\* C34: in every reachable state every entry with delay_write_until > 0 is on the delayed write list, dirty, and off the LRU, whatever public calls (flush, destroy, remove_entry, raw and metadata writes, the end of tick releases) have been made
C34_DelayedEntriesWait ==
  (Returned /\ pb.pb_open) => \A p \in Resident(pb) :
    (pb.ht[p].delay_write_until > 0) => (InSeq(pb.dwl, p) /\ pb.ht[p].is_dirty /\ ~InSeq(pb.LRU, p))

\* C35 as stated: in every reachable state the LRU holds no entry with modified_this_tick = TRUE, none with delay_write_until > 0, and no multi-page metadata entry
C35_LRUHoldsNoTicked ==
  (Returned /\ pb.pb_open) => \A p \in Resident(pb) :
    InSeq(pb.LRU, p) => ((~pb.ht[p].modified_this_tick) /\ (pb.ht[p].delay_write_until = 0) /\ ~pb.ht[p].is_mpmde)

\* C35 amended: in every reachable state the LRU holds no entry with delay_write_until > 0 and no multi-page metadata entry; a page modified in this tick stays on the LRU unless its write is delayed
C35_LRUHoldsNoDelayedNoMulti ==
  (Returned /\ pb.pb_open) => \A p \in Resident(pb) :
    /\ InSeq(pb.LRU, p) => ((pb.ht[p].delay_write_until = 0) /\ ~pb.ht[p].is_mpmde)
    /\ (pb.ht[p].modified_this_tick /\ (~pb.ht[p].is_mpmde) /\ (pb.ht[p].delay_write_until = 0)) => InSeq(pb.LRU, p)

\* a page modified in this tick is on the LRU while a delayed multi-page entry waits on the delayed write list
C35_Witness == Returned /\ pb.pb_open /\ (~FreedInIndex(pb)) /\ (\E p \in Resident(pb) : InSeq(pb.LRU, p) /\ pb.ht[p].modified_this_tick /\ pb.ht[p].is_dirty) /\ (\E q \in Resident(pb) : pb.ht[q].is_mpmde /\ (pb.ht[q].delay_write_until > 0) /\ InSeq(pb.dwl, q) /\ pb.ht[q].is_dirty)

\* delay_write_until of the i-th entry of the delayed write list
DwlUntil(b, i) == b.ht[b.dwl[i]].delay_write_until

\* C36: in every reachable state the delayed write list is ordered by non-increasing delay_write_until from head to tail, and when H5PB_vfd_swmr__release_delayed_writes has returned at the end of a tick no entry left on the list has a delay_write_until below the tick of the release
C36_DwlSortedAndDrained ==
  (Returned /\ pb.pb_open) =>
    /\ \A i, j \in {k \in 1 .. Len(pb.dwl) : InIndex(pb, pb.dwl[k])} : (i < j) => (DwlUntil(pb, i) >= DwlUntil(pb, j))
    /\ ((op.name = "eot") /\ (ret = "ok")) => \A i \in {k \in 1 .. Len(pb.dwl) : InIndex(pb, pb.dwl[k])} : ~(DwlUntil(pb, i) < tick_num - 1)

\* the configuration admits pages of this type: the minimum of the other class is not the whole buffer
Admits(b, type) == IF type = DRAW THEN b.min_md_pages # b.max_pages ELSE b.min_rd_pages # b.max_pages

\* C37: without SWMR, in a page buffer whose configuration admits the type of the page, a read or write of a page that is not resident never fails: H5PB__make_space returns no error whatever pages are resident, also when curr_md_pages < min_md_pages or curr_rd_pages < min_rd_pages and the LRU tail is a page of the type being inserted
C37_MissNeverFailsOnPolicy ==
  ((nops = 1) /\ (op.name \in {"read", "write"}) /\ (~pb.vfd_swmr_writer) /\ (~op.was.resident) /\ Admits(pb, op.type)) => (ret # "fail")

\* the pages H5PB__flush_entry has written during the call more than once
FlushedTwice == {e.page : e \in {e1 \in wlog : \E e2 \in wlog : (e2.page = e1.page) /\ (e2.nth # e1.nth)}}

\* C38: H5PB__make_space terminates whatever the LRU holds and in whatever
\* order: no call runs out of passes over the list, no entry is flushed
\* more than once during the call, and a call that returns with success has
\* either brought curr_pages below max_pages before it inserted its page or
\* walked past the head of the LRU.
C38_MakeSpaceTerminates ==
  /\ ret # "diverge"
  /\ FlushedTwice = {}
  /\ ((nops = 1) /\ (op.name \in {"read", "write"}) /\ (ret = "ok") /\ (~op.was.resident) /\ InIndex(pb, op.addr \div PageSize) /\ (op.was.curr_pages >= pb.max_pages)) =>
       \/ op.was.curr_pages - Cardinality(op.was.evicted) < pb.max_pages
       \/ \A p \in DOMAIN pb.ht : (p # op.addr \div PageSize) /\ InSeq(pb.LRU, p) =>
            \/ pb.ht[p].modified_this_tick
            \/ (op.type # DRAW) /\ (~pb.ht[p].is_metadata) /\ (pb.curr_rd_pages <= pb.min_rd_pages)
            \/ (op.type = DRAW) /\ pb.ht[p].is_metadata /\ (pb.curr_md_pages <= pb.min_md_pages)

\* a full page buffer whose LRU was all dirty: the call flushed the tail first, the flushed entries went to the head, and the walk came back to evict one of them
C38_Witness == (nops = 1) /\ (op.name = "read") /\ (ret = "ok") /\ (~op.was.resident) /\ (op.was.curr_pages >= pb.max_pages) /\ (Cardinality(wlog) >= 2) /\ (\E e \in wlog : \E v \in op.was.evicted : e.page = v.page)

\* what a call leaves in its own file and page buffer and hands to its caller
OwnOutcome(r) == [k \in DOMAIN r \ {"prev_addr", "heap", "read_err"} |-> r[k]]

\* C39: a metadata read on one file depends only on that file's page buffer
\* and that file's own earlier calls: a metadata read on a second open file
\* changes the outcome of no metadata read that can follow on the first
\* file (same result, same bytes, same entries resident and evicted); and a
\* metadata read that fails does not become the previous read.
C39_ReadsDependOnOwnFile ==
  [][/\ ((pb' = pb) /\ (nops' = nops) /\ (prev_addr' # prev_addr)) =>
          (\A q \in InFile(SpeculativeReqs \cup SmallMetaReqs) : OwnOutcome(H5PB_read(Machine, q.type, q.addr, q.size)) = OwnOutcome(H5PB_read(Machine', q.type, q.addr, q.size)))
     /\ ((nops' = nops + 1) /\ (op'.name \in {"read", "read_err"}) /\ (op'.type = META) /\ (ret' = "fail")) => (prev_addr' = prev_addr)]_vars

\* the bytes of entries p and q of page buffer b overlap
Overlap(b, p, q) == (b.ht[p].addr < b.ht[q].addr + b.ht[q].size) /\ (b.ht[q].addr < b.ht[p].addr + b.ht[p].size)

\* C40: no two entries of the page buffer cover overlapping byte ranges:
\* while a multi-page metadata entry is resident no regular page lies
\* inside its range, whatever read, write or H5PB_add_new_page is called
\* inside the range, and a multi-page metadata entry is never created over
\* a resident regular page.
C40_EntriesDoNotOverlap ==
  (Returned /\ pb.pb_open /\ ~FreedInIndex(pb)) => (\A p \in DOMAIN pb.ht : \A q \in DOMAIN pb.ht : (p # q) => ~Overlap(pb, p, q))
=========================================================================
